---- MODULE Spec2Model ----
(***************************************************************************)
(* Model of the algorithm engines behind the interactive demos of          *)
(* beyond-bigo: the Trie (TrieDemo), the Aho-Corasick automaton            *)
(* (AhoCorasickDemo), the sliding-window matcher (SlideMultiplyDemo) and   *)
(* the FFT correlation pipeline (FFTDemo).                                 *)
(*                                                                         *)
(* A JavaScript string is a sequence of one-character strings.  A trie or  *)
(* automaton node is named by the sequence of symbols on the path from the *)
(* root (the code names it by the id `root-A-T`, which is the same         *)
(* information); the root is the empty sequence.                           *)
(***************************************************************************)
EXTENDS Integers, Sequences, FiniteSets, TLC

VARIABLES
  trie,          \* the Trie object of TrieDemo: its nodes and wordCount
  trieAccepted,  \* history: the sequences insert accepted since the last clear
  trieOut,       \* the last Trie call: operation, argument, returned value
  ac,            \* the AhoCorasick object of AhoCorasickDemo
  acFresh,       \* history: buildFailureLinks ran after the last successful addPattern
  acOut,         \* the last AhoCorasick call: operation, argument, returned value
  demo,          \* React state of AhoCorasickDemo
  sessionFixed,  \* history: no pattern was added and the text was not edited
                 \* since the current step-mode session started
  slide,         \* React state of SlideMultiplyDemo
  fft,           \* React state of FFTDemo
  build          \* buildFailureLinks in progress: its place, queue and locals

trieVars == <<trie, trieAccepted, trieOut>>

acVars == <<ac, acFresh, acOut>>

demoVars == <<demo, sessionFixed>>

vars ==
  <<trie, trieAccepted, trieOut, ac, acFresh, acOut, demo, sessionFixed, slide, fft,
    build>>

(***************************************************************************)
(* Bounds of the model.                                                    *)
(***************************************************************************)
MaxWordLen == 2
MaxWords == 3
MaxPatLen == 2
MaxPatterns == 2
MaxTextLen == 3
MaxDemoPatterns == 3
MaxSlideText == 3
MaxSlidePattern == 2
MaxFFTText == 3
MaxFFTPattern == 2
MaxRuns == 2

(***************************************************************************)
(* Strings.                                                                *)
(***************************************************************************)
Sigma == {"A", "T", "G", "C"}

\* The symbols the enumerated inputs are drawn from.
GenSigma == {"A", "T"}

\* String.prototype.toUpperCase / toLowerCase on one character.
ToUpperChar(c) ==
  CASE c = "a" -> "A" [] c = "t" -> "T" [] c = "g" -> "G" [] c = "c" -> "C"
    [] c = "x" -> "X" [] OTHER -> c

ToLowerChar(c) ==
  CASE c = "A" -> "a" [] c = "T" -> "t" [] c = "G" -> "g" [] c = "C" -> "c"
    [] c = "X" -> "x" [] OTHER -> c

ToUpperCase(s) == [i \in 1..Len(s) |-> ToUpperChar(s[i])]

ToLowerCase(s) == [i \in 1..Len(s) |-> ToLowerChar(s[i])]

\* String.prototype.trim: drops leading and trailing white space.
RECURSIVE TrimStart(_)
TrimStart(s) ==
  IF s # <<>> /\ Head(s) = " " THEN TrimStart(Tail(s)) ELSE s

RECURSIVE TrimEnd(_)
TrimEnd(s) ==
  IF s # <<>> /\ s[Len(s)] = " " THEN TrimEnd(SubSeq(s, 1, Len(s) - 1)) ELSE s

Trim(s) == TrimEnd(TrimStart(s))

\* /^[ATGC]+$/.test(s)
IsATGC(s) == s # <<>> /\ \A i \in 1..Len(s) : s[i] \in Sigma

InSigma(c) == c \in Sigma

\* s.replace(/[^ATGC]/g, '')
StripNonATGC(s) == SelectSeq(s, InSigma)

\* All strings over alphabet of length 0..n.
RECURSIVE StringsUpTo(_, _)
StringsUpTo(alphabet, n) ==
  IF n = 0 THEN {<<>>}
  ELSE LET shorter == StringsUpTo(alphabet, n - 1)
       IN  shorter \cup {Append(s, c) : s \in shorter, c \in alphabet}

(***************************************************************************)
(* Trie (TrieDemo).                                                        *)
(***************************************************************************)
TrieRoot == <<>>

TrieRootNode ==
  [char |-> "", children |-> <<>>, isEndOfWord |-> FALSE, level |-> 0]

\* constructor() and clear(): a single root, wordCount 0.
NewTrie == [nodes |-> (TrieRoot :> TrieRootNode), wordCount |-> 0]

HasChild(nodes, node, c) == \E i \in 1..Len(nodes[node].children) : nodes[node].children[i] = c

\* The loop of insert giving a new node the level of its parent.
RECURSIVE InsertWalkLevelNotRaised(_, _, _, _)
InsertWalkLevelNotRaised(nodes, word, i, node) ==
  IF i > Len(word) THEN [nodes |-> nodes, node |-> node]
  ELSE LET c == word[i]
           child == Append(node, c)
           created ==
             IF HasChild(nodes, node, c) THEN nodes
             ELSE [nodes EXCEPT ![node].children = Append(@, c)] @@
                  (child :> [char |-> c, children |-> <<>>, isEndOfWord |-> FALSE,
                             level |-> nodes[node].level])
       IN  InsertWalkLevelNotRaised(created, word, i + 1, child)

\* The loop of insert: from node, walk word[i..], creating the missing children.
\* Returns the node map and the node reached.
RECURSIVE InsertWalk(_, _, _, _)
InsertWalk(nodes, word, i, node) ==
  IF i > Len(word) THEN [nodes |-> nodes, node |-> node]
  ELSE LET c == word[i]
           child == Append(node, c)
           created ==
             IF HasChild(nodes, node, c) THEN nodes
             ELSE [nodes EXCEPT ![node].children = Append(@, c)] @@
                  (child :> [char |-> c, children |-> <<>>, isEndOfWord |-> FALSE,
                             level |-> nodes[node].level + 1])
       IN  InsertWalk(created, word, i + 1, child)

\* insert counting the word also when its last node is terminal already.
TrieInsertCountsAgain(t, input) ==
  LET word == Trim(ToUpperCase(input))
  IN  IF ~IsATGC(word) THEN [trie |-> t, ret |-> FALSE]
      ELSE LET w == InsertWalk(t.nodes, word, 1, TrieRoot)
           IN  [trie |-> [nodes |-> [w.nodes EXCEPT ![w.node].isEndOfWord = TRUE],
                          wordCount |-> t.wordCount + 1],
                ret |-> ~w.nodes[w.node].isEndOfWord]

\* Trie.insert(word): the trie after the call and the value returned.
TrieInsert(t, input) ==
  LET word == Trim(ToUpperCase(input))
  IN  IF ~IsATGC(word) THEN [trie |-> t, ret |-> FALSE]
      ELSE LET w == InsertWalk(t.nodes, word, 1, TrieRoot)
           IN  IF ~w.nodes[w.node].isEndOfWord
               THEN [trie |-> [nodes |-> [w.nodes EXCEPT ![w.node].isEndOfWord = TRUE],
                               wordCount |-> t.wordCount + 1],
                     ret |-> TRUE]
               ELSE [trie |-> [t EXCEPT !.nodes = w.nodes], ret |-> FALSE]

\* The loop of search.
RECURSIVE SearchWalk(_, _, _, _, _)
RECURSIVE SearchWalkNoTerminalTest(_, _, _, _, _)
\* SearchWalk with isPrefix computed from children.size alone.
SearchWalkNoTerminalTest(nodes, word, i, node, path) ==
  IF i > Len(word)
  THEN [found |-> nodes[node].isEndOfWord,
        isPrefix |-> Len(nodes[node].children) > 0,
        path |-> path]
  ELSE IF ~HasChild(nodes, node, word[i])
       THEN [found |-> FALSE, isPrefix |-> FALSE, path |-> path]
       ELSE LET child == Append(node, word[i])
            IN  SearchWalkNoTerminalTest(nodes, word, i + 1, child, Append(path, child))

SearchWalk(nodes, word, i, node, path) ==
  IF i > Len(word)
  THEN [found |-> nodes[node].isEndOfWord,
        isPrefix |-> ~nodes[node].isEndOfWord /\ Len(nodes[node].children) > 0,
        path |-> path]
  ELSE IF ~HasChild(nodes, node, word[i])
       THEN [found |-> FALSE, isPrefix |-> FALSE, path |-> path]
       ELSE LET child == Append(node, word[i])
            IN  SearchWalk(nodes, word, i + 1, child, Append(path, child))

\* Trie.search without the case normalisation of its argument.
TrieSearchNoUpperCase(t, input) ==
  SearchWalk(t.nodes, Trim(input), 1, TrieRoot, <<TrieRoot>>)

\* Trie.search(word)
TrieSearch(t, input) ==
  SearchWalk(t.nodes, Trim(ToUpperCase(input)), 1, TrieRoot, <<TrieRoot>>)

\* Trie.getAllNodes(): depth-first, children in Map insertion order.
RECURSIVE TrieTraverse(_, _)
RECURSIVE TrieTraverseChildren(_, _, _)
TrieTraverse(nodes, node) == <<node>> \o TrieTraverseChildren(nodes, node, 1)
TrieTraverseChildren(nodes, node, i) ==
  IF i > Len(nodes[node].children) THEN <<>>
  ELSE TrieTraverse(nodes, Append(node, nodes[node].children[i]))
       \o TrieTraverseChildren(nodes, node, i + 1)

TrieGetAllNodes(t) == TrieTraverse(t.nodes, TrieRoot)

\* The strings handed to insert and search.
TrieInputs ==
  StringsUpTo(GenSigma, MaxWordLen)
    \cup { <<"A","T","C","G">>, <<"A","T","C","G","A">>, <<"A","T","C","G","A","T">>,
           <<"a","t">>, <<" ","T"," ">>, <<"X">>, <<"A","X">>, <<"A"," ","T">> }

TrieInit ==
  /\ trie = NewTrie
  /\ trieAccepted = {}
  /\ trieOut = [op |-> "new"]

Insert(w) ==
  /\ LET r == TrieInsert(trie, w)
     IN  /\ r.trie.wordCount <= MaxWords
         /\ trie' = r.trie
         /\ trieAccepted' = IF r.ret THEN trieAccepted \cup {Trim(ToUpperCase(w))}
                            ELSE trieAccepted
         /\ trieOut' = [op |-> "insert", arg |-> w, ret |-> r.ret, before |-> trie,
                         acceptedBefore |-> trieAccepted]
  /\ UNCHANGED <<acVars, demoVars, slide, fft, build>>

Search(w) ==
  /\ trieOut' = [op |-> "search", arg |-> w, ret |-> TrieSearch(trie, w)]
  /\ UNCHANGED <<trie, trieAccepted>>
  /\ UNCHANGED <<acVars, demoVars, slide, fft, build>>

\* clear() that empties the nodes and keeps wordCount.
ClearNodesOnly ==
  /\ trie' = [trie EXCEPT !.nodes = NewTrie.nodes]
  /\ trieAccepted' = {}
  /\ trieOut' = [op |-> "clear", before |-> trie]
  /\ UNCHANGED <<acVars, demoVars, slide, fft, build>>

Clear ==
  /\ trie' = NewTrie
  /\ trieAccepted' = {}
  /\ trieOut' = [op |-> "clear", before |-> trie]
  /\ UNCHANGED <<acVars, demoVars, slide, fft, build>>

TrieNext ==
  \/ \E w \in TrieInputs : Insert(w)
  \/ \E w \in TrieInputs : Search(w)
  \/ Clear


(***************************************************************************)
(* Aho-Corasick automaton (class AhoCorasick of AhoCorasickDemo).          *)
(***************************************************************************)
Root == <<>>

\* null, for failureLink and currentState; undefined, for pattern.
Null == <<"null">>
Undefined == <<"undefined">>

ACRootNode ==
  [char |-> "", children |-> <<>>, isEndOfWord |-> FALSE, pattern |-> Undefined,
   failureLink |-> Null, outputLinks |-> <<>>, depth |-> 0]

NewAnimationState ==
  [currentChar |-> "", previousState |-> Null, usedFailureLink |-> FALSE,
   newMatches |-> <<>>]

\* constructor() and clear()
NewAC ==
  [nodes |-> (Root :> ACRootNode), patterns |-> <<>>, currentState |-> Root,
   matches |-> <<>>, animationState |-> NewAnimationState]

\* patterns.includes(p)
Includes(seq, p) == \E i \in 1..Len(seq) : seq[i] = p

\* The loop of addPattern: walk word[i..] from node, creating missing children.
RECURSIVE AddWalk(_, _, _, _)
AddWalk(nodes, word, i, node) ==
  IF i > Len(word) THEN [nodes |-> nodes, node |-> node]
  ELSE LET c == word[i]
           child == Append(node, c)
           created ==
             IF HasChild(nodes, node, c) THEN nodes
             ELSE [nodes EXCEPT ![node].children = Append(@, c)] @@
                  (child :> [char |-> c, children |-> <<>>, isEndOfWord |-> FALSE,
                             pattern |-> Undefined, failureLink |-> Null,
                             outputLinks |-> <<>>, depth |-> nodes[node].depth + 1])
       IN  AddWalk(created, word, i + 1, child)

\* addPattern without the patterns.includes test.
ACAddPatternNoDuplicateTest(a, input) ==
  LET normalizedPattern == Trim(ToUpperCase(input))
  IN  IF ~IsATGC(normalizedPattern) THEN [ac |-> a, ret |-> FALSE]
      ELSE LET w == AddWalk(a.nodes, ToLowerCase(normalizedPattern), 1, Root)
           IN  [ac |-> [a EXCEPT
                         !.patterns = Append(@, normalizedPattern),
                         !.nodes = [w.nodes EXCEPT ![w.node].isEndOfWord = TRUE,
                                                   ![w.node].pattern = normalizedPattern]],
                ret |-> TRUE]

\* AhoCorasick.addPattern(pattern): the automaton after the call and the value
\* returned.
ACAddPattern(a, input) ==
  LET normalizedPattern == Trim(ToUpperCase(input))
  IN  IF ~IsATGC(normalizedPattern) THEN [ac |-> a, ret |-> FALSE]
      ELSE IF Includes(a.patterns, normalizedPattern) THEN [ac |-> a, ret |-> FALSE]
      ELSE LET w == AddWalk(a.nodes, ToLowerCase(normalizedPattern), 1, Root)
           IN  [ac |-> [a EXCEPT
                         !.patterns = Append(@, normalizedPattern),
                         !.nodes = [w.nodes EXCEPT ![w.node].isEndOfWord = TRUE,
                                                   ![w.node].pattern = normalizedPattern]],
                ret |-> TRUE]

\* while (failureState !== null && !failureState.children.has(char))
RECURSIVE FindFailure(_, _, _)
FindFailure(nodes, failureState, c) ==
  IF failureState # Null /\ ~HasChild(nodes, failureState, c)
  THEN FindFailure(nodes, nodes[failureState].failureLink, c)
  ELSE failureState

\* A build that links every node straight to the root.
FailureLinkOfRootOnly(nodes, current, c) == Root

\* A failure loop that ends at the root without trying the root's children.
FailureLinkOfSkipRoot(nodes, current, c) ==
  LET failureState == FindFailure(nodes, nodes[current].failureLink, c)
  IN  IF failureState = Null \/ failureState = Root THEN Root
      ELSE Append(failureState, c)

\* The failure link given to the child of current on symbol c.
FailureLinkOf(nodes, current, c) ==
  LET failureState == FindFailure(nodes, nodes[current].failureLink, c)
  IN  IF failureState = Null THEN Root ELSE Append(failureState, c)

\* while (outputState !== null): the terminal nodes on the failure chain.
RECURSIVE CollectOutputs(_, _)
CollectOutputs(nodes, outputState) ==
  IF outputState = Null THEN <<>>
  ELSE (IF nodes[outputState].isEndOfWord THEN <<outputState>> ELSE <<>>)
       \o CollectOutputs(nodes, nodes[outputState].failureLink)

\* Output links without the isEndOfWord test: the whole failure chain.
RECURSIVE WholeChain(_, _)
WholeChain(nodes, outputState) ==
  IF outputState = Null THEN <<>>
  ELSE <<outputState>> \o WholeChain(nodes, nodes[outputState].failureLink)

OutputLinksOfWholeChain(nodes, child) == WholeChain(nodes, nodes[child].failureLink)

\* Output links that start the walk at the node itself.
OutputLinksOfInclSelf(nodes, child) == CollectOutputs(nodes, child)

\* The output links given to child, whose failure link is already set.
OutputLinksOf(nodes, child) == CollectOutputs(nodes, nodes[child].failureLink)

\* A build that leaves alone every child an earlier build has linked.
RECURSIVE BuildChildrenKeepLinked(_, _, _, _)
BuildChildrenKeepLinked(nodes, queue, current, i) ==
  IF i > Len(nodes[current].children) THEN [nodes |-> nodes, queue |-> queue]
  ELSE LET c == nodes[current].children[i]
           child == Append(current, c)
           linked == [nodes EXCEPT ![child].failureLink = FailureLinkOf(nodes, current, c)]
           output == [linked EXCEPT ![child].outputLinks = OutputLinksOf(linked, child)]
       IN  IF nodes[child].failureLink # Null
           THEN BuildChildrenKeepLinked(nodes, Append(queue, child), current, i + 1)
           ELSE BuildChildrenKeepLinked(output, Append(queue, child), current, i + 1)

\* for (const [char, child] of current.children.entries())
RECURSIVE BuildChildren(_, _, _, _)
BuildChildren(nodes, queue, current, i) ==
  IF i > Len(nodes[current].children) THEN [nodes |-> nodes, queue |-> queue]
  ELSE LET c == nodes[current].children[i]
           child == Append(current, c)
           linked == [nodes EXCEPT ![child].failureLink = FailureLinkOf(nodes, current, c)]
           output == [linked EXCEPT ![child].outputLinks = OutputLinksOf(linked, child)]
       IN  BuildChildren(output, Append(queue, child), current, i + 1)

\* while (queue.length > 0)
RECURSIVE BuildLoop(_, _)
BuildLoop(nodes, queue) ==
  IF queue = <<>> THEN nodes
  ELSE LET r == BuildChildren(nodes, Tail(queue), Head(queue), 1)
       IN  BuildLoop(r.nodes, r.queue)

\* A build that queues the first level without linking it to the root.
ACBuildFirstLevelUnlinked(a) ==
  LET rootChildren == a.nodes[Root].children
      queue == [i \in 1..Len(rootChildren) |-> <<rootChildren[i]>>]
  IN  [a EXCEPT !.nodes = BuildLoop(a.nodes, queue)]

\* A build that stops after the first level.
ACBuildFirstLevelOnly(a) ==
  LET rootChildren == a.nodes[Root].children
  IN  [a EXCEPT !.nodes = [n \in DOMAIN a.nodes |->
                             IF Len(n) = 1 /\ Includes(rootChildren, n[1])
                             THEN [a.nodes[n] EXCEPT !.failureLink = Root]
                             ELSE a.nodes[n]]]

\* AhoCorasick.buildFailureLinks()
ACBuildFailureLinks(a) ==
  LET rootChildren == a.nodes[Root].children
      queue == [i \in 1..Len(rootChildren) |-> <<rootChildren[i]>>]
      firstLevel == [n \in DOMAIN a.nodes |->
                       IF Includes(queue, n) THEN [a.nodes[n] EXCEPT !.failureLink = Root]
                       ELSE a.nodes[n]]
  IN  [a EXCEPT !.nodes = BuildLoop(firstLevel, queue)]

\* A loop that stops at the root instead of reading the root's link:
\* while (state !== root && !state.children.has(char)), the cursor staying
\* at the root when the root has no child either.
RECURSIVE FollowFailureRootUnread(_, _, _, _)
FollowFailureRootUnread(nodes, state, c, used) ==
  IF state = Null THEN [state |-> Null, used |-> TRUE]
  ELSE IF HasChild(nodes, state, c) THEN [state |-> state, used |-> used]
  ELSE IF state = Root THEN [state |-> Null, used |-> used]
  ELSE FollowFailureRootUnread(nodes, nodes[state].failureLink, c, TRUE)

\* A transition that follows one failure link at most: if for while.
FollowFailureOnce(nodes, state, c, used) ==
  IF HasChild(nodes, state, c) THEN [state |-> state, used |-> used]
  ELSE LET f == nodes[state].failureLink
       IN  IF f # Null /\ HasChild(nodes, f, c) THEN [state |-> f, used |-> TRUE]
           ELSE [state |-> Null, used |-> TRUE]

\* while (this.currentState !== null && !this.currentState.children.has(char)):
\* the state the loop ends in and whether a failure link was followed.
RECURSIVE FollowFailure(_, _, _, _)
FollowFailure(nodes, state, c, used) ==
  IF state # Null /\ ~HasChild(nodes, state, c)
  THEN FollowFailure(nodes, nodes[state].failureLink, c, TRUE)
  ELSE [state |-> state, used |-> used]

\* The number of times the loop of processCharacter runs its body, that is,
\* reads a failureLink and assigns it to the cursor.
RECURSIVE FailureFollows(_, _, _)
FailureFollows(nodes, state, c) ==
  IF state # Null /\ ~HasChild(nodes, state, c)
  THEN 1 + FailureFollows(nodes, nodes[state].failureLink, c)
  ELSE 0

\* A match of the pattern stored at node, ending at position.
MatchAt(nodes, node, position) ==
  [pattern |-> nodes[node].pattern,
   position |-> position - Len(nodes[node].pattern) + 1,
   endPosition |-> position]

\* processCharacter that reports the pattern of the current state alone.
NewMatchesOfOwnOnly(nodes, state, position) ==
  IF nodes[state].isEndOfWord THEN <<MatchAt(nodes, state, position)>> ELSE <<>>

\* The matches one processCharacter call emits in state: the state's own
\* pattern, then its output links in order.
NewMatchesOf(nodes, state, position) ==
  (IF nodes[state].isEndOfWord THEN <<MatchAt(nodes, state, position)>> ELSE <<>>)
  \o [i \in 1..Len(nodes[state].outputLinks) |->
        MatchAt(nodes, nodes[state].outputLinks[i], position)]

\* AhoCorasick.processCharacter(char, position)
ACProcessCharacter(a, char, position) ==
  LET c == ToLowerChar(char)
      f == FollowFailure(a.nodes, a.currentState, c, FALSE)
      next == IF f.state = Null THEN Root ELSE Append(f.state, c)
      found == NewMatchesOf(a.nodes, next, position)
  IN  [a EXCEPT !.currentState = next,
                !.matches = @ \o found,
                !.animationState = [currentChar |-> c,
                                    previousState |-> a.currentState,
                                    usedFailureLink |-> f.used,
                                    newMatches |-> found]]

\* for (let i = 0; i < text.length; i++) processCharacter(text[i], i)
RECURSIVE SearchLoop(_, _, _)
SearchLoop(a, text, i) ==
  IF i >= Len(text) THEN a
  ELSE SearchLoop(ACProcessCharacter(a, ToLowerChar(text[i + 1]), i), text, i + 1)

\* search that starts from the cursor and the match list it finds.
ACSearchNoReset(a, text) == SearchLoop(a, text, 0)

\* AhoCorasick.search(text): the automaton after the call; the value returned
\* is its matches.
ACSearch(a, text) ==
  SearchLoop([a EXCEPT !.matches = <<>>, !.currentState = Root], text, 0)

\* AhoCorasick.getAllNodes(): depth-first, children in Map insertion order.
RECURSIVE ACTraverse(_, _)
RECURSIVE ACTraverseChildren(_, _, _)
ACTraverse(nodes, node) == <<node>> \o ACTraverseChildren(nodes, node, 1)
ACTraverseChildren(nodes, node, i) ==
  IF i > Len(nodes[node].children) THEN <<>>
  ELSE ACTraverse(nodes, Append(node, nodes[node].children[i]))
       \o ACTraverseChildren(nodes, node, i + 1)

ACGetAllNodes(a) == ACTraverse(a.nodes, Root)

\* The preset pattern sets and the default text of the demo.
DefaultPatterns ==
  << << <<"T","C","G">>, <<"A","T","C","G">> >>,
     << <<"G","A","T">>, <<"C","G","A","T">> >>,
     << <<"A","T","C">>, <<"T","C","G","A">>, <<"C","G","A","T">> >> >>

DefaultText == <<"A","T","C","G","A","T","C","G">>

\* The strings handed to addPattern.
PatternInputs ==
  (StringsUpTo(GenSigma, MaxPatLen) \ {<<>>})
    \cup { <<"T","C","G">>, <<"A","T","C","G">>, <<"G","A","T">>, <<"C","G","A","T">>,
           <<>>, <<" ">>, <<"t","a">>, <<" ","A","T"," ">>, <<"A","X">> }

\* The texts handed to search.
Texts ==
  StringsUpTo(GenSigma, MaxTextLen)
    \cup { <<"C","G","A","T","C","G">>, <<"A","T","C","G","A">>, <<"a","t","a">>,
           <<"T","X","A","T">> }

ACInit ==
  /\ ac = NewAC
  /\ acFresh = TRUE
  /\ acOut = [op |-> "new"]

AddPattern(p) ==
  /\ LET r == ACAddPattern(ac, p)
     IN  /\ Len(r.ac.patterns) <= MaxPatterns
         /\ ac' = r.ac
         /\ acFresh' = (acFresh /\ ~r.ret)
         /\ acOut' = [op |-> "addPattern", arg |-> p, ret |-> r.ret, before |-> ac]
  /\ UNCHANGED <<trieVars, demoVars, slide, fft, build>>

BuildFailureLinks ==
  /\ ac' = ACBuildFailureLinks(ac)
  /\ acFresh' = TRUE
  /\ acOut' = [op |-> "buildFailureLinks", before |-> ac]
  /\ UNCHANGED <<trieVars, demoVars, slide, fft, build>>

SearchText(t) ==
  /\ ac' = ACSearch(ac, t)
  /\ acOut' = [op |-> "search", arg |-> t, ret |-> ac'.matches]
  /\ UNCHANGED acFresh
  /\ UNCHANGED <<trieVars, demoVars, slide, fft, build>>

ClearAC ==
  /\ ac' = NewAC
  /\ acFresh' = TRUE
  /\ acOut' = [op |-> "clear"]
  /\ UNCHANGED <<trieVars, demoVars, slide, fft, build>>

ACNext ==
  \/ \E p \in PatternInputs : AddPattern(p)
  \/ BuildFailureLinks
  \/ \E t \in Texts : SearchText(t)
  \/ ClearAC

(***************************************************************************)
(* buildFailureLinks statement by statement, on the same automaton.  The   *)
(* call runs to its end before any other method of the object starts.      *)
(* build.linked holds the nodes whose failureLink this call has assigned,  *)
(* build.event the kind of the last assignment and build.child its node.   *)
(***************************************************************************)
NotBuilding ==
  [pc |-> "idle", queue |-> <<>>, current |-> Null, i |-> 0, linked |-> {},
   event |-> "none", child |-> Null]

BuildInit == build = NotBuilding

\* The patterns added between two builds.
BuildPatternInputs ==
  { <<"A">>, <<"A","T">>, <<"T","A">>, <<"T","C","G">>, <<"A","T","C","G">>,
    <<"G","A","T">> }

\* addPattern, called while no build is running.
buildAddPattern(p) ==
  /\ build.pc = "idle"
  /\ AddPattern(p)

\* const queue = []; for (const child of this.root.children.values()) { ... }
buildFirstLevel ==
  /\ build.pc = "idle"
  /\ LET rootChildren == ac.nodes[Root].children
         queue == [k \in 1..Len(rootChildren) |-> <<rootChildren[k]>>]
     IN  /\ ac' = [ac EXCEPT !.nodes = [n \in DOMAIN ac.nodes |->
                                          IF Includes(queue, n)
                                          THEN [ac.nodes[n] EXCEPT !.failureLink = Root]
                                          ELSE ac.nodes[n]]]
         /\ build' = [NotBuilding EXCEPT !.pc = "while", !.queue = queue,
                                         !.linked = {queue[k] : k \in 1..Len(queue)}]
  /\ UNCHANGED <<acFresh, acOut>>
  /\ UNCHANGED <<trieVars, demoVars, slide, fft>>

\* A queue served from its end: queue.pop() for queue.shift().
buildShiftFromEnd ==
  /\ build.pc = "while"
  /\ build.queue # <<>>
  /\ build' = [build EXCEPT !.pc = "for", !.current = build.queue[Len(build.queue)],
                            !.queue = SubSeq(build.queue, 1, Len(build.queue) - 1),
                            !.i = 1, !.event = "none"]
  /\ UNCHANGED acVars
  /\ UNCHANGED <<trieVars, demoVars, slide, fft>>

\* while (queue.length > 0) { const current = queue.shift()!;
buildShift ==
  /\ build.pc = "while"
  /\ build.queue # <<>>
  /\ build' = [build EXCEPT !.pc = "for", !.current = Head(build.queue),
                            !.queue = Tail(build.queue), !.i = 1, !.event = "none"]
  /\ UNCHANGED acVars
  /\ UNCHANGED <<trieVars, demoVars, slide, fft>>

\* queue.push(child) and the assignment of child.failureLink
buildLink ==
  /\ build.pc = "for"
  /\ build.i <= Len(ac.nodes[build.current].children)
  /\ LET c == ac.nodes[build.current].children[build.i]
         child == Append(build.current, c)
     IN  /\ ac' = [ac EXCEPT !.nodes[child].failureLink =
                                FailureLinkOf(ac.nodes, build.current, c)]
         /\ build' = [build EXCEPT !.pc = "output", !.queue = Append(@, child),
                                   !.linked = @ \cup {child}, !.event = "link",
                                   !.child = child]
  /\ UNCHANGED <<acFresh, acOut>>
  /\ UNCHANGED <<trieVars, demoVars, slide, fft>>

\* child.outputLinks = []; the walk from child.failureLink; next child
buildOutput ==
  /\ build.pc = "output"
  /\ ac' = [ac EXCEPT !.nodes[build.child].outputLinks =
                         OutputLinksOf(ac.nodes, build.child)]
  /\ build' = [build EXCEPT !.pc = "for", !.i = @ + 1, !.event = "output"]
  /\ UNCHANGED <<acFresh, acOut>>
  /\ UNCHANGED <<trieVars, demoVars, slide, fft>>

\* The children of current are done: back to the test of the while loop.
buildForEnd ==
  /\ build.pc = "for"
  /\ build.i > Len(ac.nodes[build.current].children)
  /\ build' = [build EXCEPT !.pc = "while", !.event = "none"]
  /\ UNCHANGED acVars
  /\ UNCHANGED <<trieVars, demoVars, slide, fft>>

\* The queue is empty: buildFailureLinks returns.
buildReturn ==
  /\ build.pc = "while"
  /\ build.queue = <<>>
  /\ build' = NotBuilding
  /\ acFresh' = TRUE
  /\ acOut' = [op |-> "buildFailureLinks"]
  /\ UNCHANGED ac
  /\ UNCHANGED <<trieVars, demoVars, slide, fft>>

BuildNext ==
  \/ \E p \in BuildPatternInputs : buildAddPattern(p)
  \/ buildFirstLevel
  \/ buildShift
  \/ buildLink
  \/ buildOutput
  \/ buildForEnd
  \/ buildReturn

(***************************************************************************)
(* The AhoCorasickDemo component: its handlers drive the same automaton.   *)
(***************************************************************************)
\* What handlePatternChange and handleTextChange keep of the typed value.
Sanitize(raw) == StripNonATGC(ToUpperCase(raw))

\* patterns.forEach(pattern => ac.addPattern(pattern))
RECURSIVE AddAll(_, _, _)
AddAll(a, patterns, i) ==
  IF i > Len(patterns) THEN a
  ELSE AddAll(ACAddPattern(a, patterns[i]).ac, patterns, i + 1)

\* Starting step mode without emptying the match list.
StartStepModeKeepMatches(a) == [a EXCEPT !.currentState = Root]

\* handleStepMode, start of a session: ac.currentState = ac.root; ac.matches = []
StartStepMode(a) == [a EXCEPT !.currentState = Root, !.matches = <<>>]

\* The values typed into the pattern field and into the text field.
DemoPatternInputs == { <<"A">>, <<"t","a">>, <<"A","x","T">> }

DemoTextInputs == { <<>>, <<"A","T","A">>, <<"a","t","c","g","x","a">> }

DemoInit ==
  /\ demo = [inputText |-> DefaultText, patternInput |-> <<>>, matches |-> <<>>,
             stepMode |-> FALSE, currentPosition |-> 0]
  /\ sessionFixed = FALSE

handlePatternChange(raw) ==
  /\ demo' = [demo EXCEPT !.patternInput = Sanitize(raw)]
  /\ UNCHANGED <<ac, acFresh, acOut, sessionFixed>>
  /\ UNCHANGED <<trieVars, slide, fft, build>>

\* handleAddPattern without the call of buildFailureLinks.
handleAddPatternNoBuild ==
  /\ LET r == ACAddPattern(ac, demo.patternInput)
     IN  IF Trim(demo.patternInput) = <<>> THEN UNCHANGED <<acVars, demoVars>>
         ELSE IF r.ret
         THEN /\ Len(r.ac.patterns) <= MaxDemoPatterns
              /\ ac' = r.ac
              /\ acFresh' = TRUE
              /\ demo' = [demo EXCEPT !.patternInput = <<>>]
              /\ sessionFixed' = FALSE
              /\ UNCHANGED acOut
         ELSE UNCHANGED <<acVars, demoVars>>
  /\ UNCHANGED <<trieVars, slide, fft, build>>

handleAddPattern ==
  /\ LET r == ACAddPattern(ac, demo.patternInput)
     IN  IF Trim(demo.patternInput) = <<>> THEN UNCHANGED <<acVars, demoVars>>
         ELSE IF r.ret
         THEN /\ Len(r.ac.patterns) <= MaxDemoPatterns
              /\ ac' = ACBuildFailureLinks(r.ac)
              /\ acFresh' = TRUE
              /\ demo' = [demo EXCEPT !.patternInput = <<>>]
              /\ sessionFixed' = FALSE
              /\ UNCHANGED acOut
         ELSE UNCHANGED <<acVars, demoVars>>
  /\ UNCHANGED <<trieVars, slide, fft, build>>

handleSearch ==
  /\ IF Len(ac.patterns) = 0 THEN UNCHANGED <<acVars, demoVars>>
     ELSE /\ ac' = ACSearch(ac, demo.inputText)
          /\ demo' = [demo EXCEPT !.stepMode = FALSE, !.matches = ac'.matches]
          /\ UNCHANGED <<acFresh, acOut, sessionFixed>>
  /\ UNCHANGED <<trieVars, slide, fft, build>>

handleStepMode ==
  /\ IF Len(ac.patterns) = 0 THEN UNCHANGED <<acVars, demoVars>>
     ELSE IF ~demo.stepMode
     THEN /\ demo' = [demo EXCEPT !.stepMode = TRUE, !.currentPosition = 0,
                                  !.matches = <<>>]
          /\ ac' = StartStepMode(ac)
          /\ sessionFixed' = TRUE
          /\ UNCHANGED <<acFresh, acOut>>
     ELSE IF demo.currentPosition >= Len(demo.inputText)
     THEN /\ demo' = [demo EXCEPT !.stepMode = FALSE]
          /\ UNCHANGED <<acVars, sessionFixed>>
     ELSE /\ ac' = ACProcessCharacter(ac, ToLowerChar(demo.inputText[demo.currentPosition + 1]),
                                      demo.currentPosition)
          /\ demo' = [demo EXCEPT !.currentPosition = @ + 1, !.matches = ac'.matches]
          /\ UNCHANGED <<acFresh, acOut, sessionFixed>>
  /\ UNCHANGED <<trieVars, slide, fft, build>>

handleReset ==
  /\ demo' = [demo EXCEPT !.stepMode = FALSE, !.currentPosition = 0, !.matches = <<>>]
  /\ ac' = [ac EXCEPT !.currentState = Root, !.matches = <<>>]
  /\ UNCHANGED <<acFresh, acOut, sessionFixed>>
  /\ UNCHANGED <<trieVars, slide, fft, build>>

handleClear ==
  /\ ac' = NewAC
  /\ acFresh' = TRUE
  /\ demo' = [demo EXCEPT !.matches = <<>>, !.stepMode = FALSE, !.currentPosition = 0]
  /\ UNCHANGED <<acOut, sessionFixed>>
  /\ UNCHANGED <<trieVars, slide, fft, build>>

handlePresetPatterns(i) ==
  /\ LET added == AddAll(ac, DefaultPatterns[i], 1)
     IN  /\ Len(added.patterns) <= MaxDemoPatterns
         /\ ac' = ACBuildFailureLinks(added)
         /\ acFresh' = TRUE
         /\ sessionFixed' = (sessionFixed /\ added.patterns = ac.patterns)
         /\ UNCHANGED <<acOut, demo>>
  /\ UNCHANGED <<trieVars, slide, fft, build>>

handleTextChange(raw) ==
  /\ demo' = [demo EXCEPT !.inputText = Sanitize(raw)]
  /\ sessionFixed' = (sessionFixed /\ Sanitize(raw) = demo.inputText)
  /\ UNCHANGED acVars
  /\ UNCHANGED <<trieVars, slide, fft, build>>

DemoNext ==
  \/ \E raw \in DemoPatternInputs : handlePatternChange(raw)
  \/ handleAddPattern
  \/ handleSearch
  \/ handleStepMode
  \/ handleReset
  \/ handleClear
  \/ \E i \in 1..Len(DefaultPatterns) : handlePresetPatterns(i)
  \/ \E raw \in DemoTextInputs : handleTextChange(raw)

(***************************************************************************)
(* Sliding-window matcher (SlideMultiplyDemo).                             *)
(***************************************************************************)
\* The order of charTypes and of bases.
CharTypes == <<"A", "T", "G", "C">>

\* sequence.split('').map(c => c === char ? 1 : 0)
Indicator(sequence, char) ==
  [i \in 1..Len(sequence) |-> IF sequence[i] = char THEN 1 ELSE 0]

\* array.reduce((acc, val) => acc + val, 0)
RECURSIVE SumSeq(_)
SumSeq(values) == IF values = <<>> THEN 0 ELSE Head(values) + SumSeq(Tail(values))

\* str.slice(from, to) for 0 <= from <= to
Slice(str, from, to) ==
  SubSeq(str, from + 1, IF to > Len(str) THEN Len(str) ELSE to)

\* products and sum of one character type over one window
DotProduct(textSlice, patternUpper, char) ==
  LET textVals == Indicator(textSlice, char)
      patternVals == Indicator(patternUpper, char)
      products == [idx \in 1..Len(textVals) |-> textVals[idx] * patternVals[idx]]
  IN  [textVals |-> textVals, patternVals |-> patternVals, products |-> products,
       sum |-> SumSeq(products)]

\* The step pushed for alignment i.
StepAt(textUpper, patternUpper, i) ==
  LET textSlice == Slice(textUpper, i, i + Len(patternUpper))
      dotProducts == [k \in 1..Len(CharTypes) |->
                        DotProduct(textSlice, patternUpper, CharTypes[k])]
      totalScore == SumSeq([k \in 1..Len(CharTypes) |-> dotProducts[k].sum])
  IN  [position |-> i, textSlice |-> textSlice, pattern |-> patternUpper,
       dotProducts |-> dotProducts, totalScore |-> totalScore,
       isMatch |-> (totalScore = Len(patternUpper))]

\* A loop that stops one alignment early.
LastPositionExclusive(textUpper, patternUpper) == Len(textUpper) - Len(patternUpper) - 1

\* for (let i = 0; i <= textUpper.length - patternUpper.length; i++)
LastPosition(textUpper, patternUpper) == Len(textUpper) - Len(patternUpper)

\* calculateSteps(textStr, patternStr)
CalculateSteps(textStr, patternStr) ==
  LET textUpper == StripNonATGC(ToUpperCase(textStr))
      patternUpper == StripNonATGC(ToUpperCase(patternStr))
      last == LastPosition(textUpper, patternUpper)
  IN  IF textUpper = <<>> \/ patternUpper = <<>> THEN <<>>
      ELSE IF last < 0 THEN <<>>
      ELSE [k \in 1..(last + 1) |-> StepAt(textUpper, patternUpper, k - 1)]

SlideDefaultText == <<"A","T","C","G","A","T","C","G">>
SlideDefaultPattern == <<"T","C","G">>

\* The values typed into the two fields; they are stored as typed.
SlideTextInputs ==
  StringsUpTo(GenSigma, MaxSlideText)
    \cup { SlideDefaultText, <<"a","t","-","G","c">>, <<"x","-">> }

SlidePatternInputs ==
  StringsUpTo(GenSigma, MaxSlidePattern)
    \cup { SlideDefaultPattern, <<"t","X","c">>, <<"-">> }

\* The state after the first render and its effects.
SlideInit ==
  slide = [text |-> SlideDefaultText, pattern |-> SlideDefaultPattern,
           currentStep |-> 0, isPlaying |-> FALSE,
           calculations |-> CalculateSteps(SlideDefaultText, SlideDefaultPattern),
           effectPending |-> FALSE]

\* onChange of the text field: setText; the component renders with the new
\* text and the old calculations until the effect runs.
slideSetText(raw) ==
  /\ ~slide.effectPending
  /\ raw # slide.text
  /\ slide' = [slide EXCEPT !.text = raw, !.effectPending = TRUE]
  /\ UNCHANGED <<trieVars, acVars, demoVars, fft, build>>

slideSetPattern(raw) ==
  /\ ~slide.effectPending
  /\ raw # slide.pattern
  /\ slide' = [slide EXCEPT !.pattern = raw, !.effectPending = TRUE]
  /\ UNCHANGED <<trieVars, acVars, demoVars, fft, build>>

\* useEffect(..., [text, pattern])
slideRecalculate ==
  /\ slide.effectPending
  /\ slide' = [slide EXCEPT !.calculations = CalculateSteps(slide.text, slide.pattern),
                            !.currentStep = 0, !.isPlaying = FALSE,
                            !.effectPending = FALSE]
  /\ UNCHANGED <<trieVars, acVars, demoVars, fft, build>>

\* The timer callback going back to the first step at the end, still playing.
slideTimerWraps ==
  /\ ~slide.effectPending
  /\ slide.isPlaying /\ Len(slide.calculations) # 0
  /\ slide' = IF slide.currentStep < Len(slide.calculations) - 1
              THEN [slide EXCEPT !.currentStep = @ + 1]
              ELSE [slide EXCEPT !.currentStep = 0]
  /\ UNCHANGED <<trieVars, acVars, demoVars, fft, build>>

\* The setTimeout callback of the auto-play effect.
slideTimer ==
  /\ ~slide.effectPending
  /\ slide.isPlaying /\ Len(slide.calculations) # 0
  /\ slide' = IF slide.currentStep < Len(slide.calculations) - 1
              THEN [slide EXCEPT !.currentStep = @ + 1]
              ELSE [slide EXCEPT !.isPlaying = FALSE]
  /\ UNCHANGED <<trieVars, acVars, demoVars, fft, build>>

\* Play is disabled while playing or with no calculations.
slideHandlePlay ==
  /\ ~slide.effectPending
  /\ ~(slide.isPlaying \/ Len(slide.calculations) = 0)
  /\ slide' = IF Len(slide.calculations) = 0 THEN slide
              ELSE [slide EXCEPT !.isPlaying = TRUE,
                                 !.currentStep =
                                   IF @ >= Len(slide.calculations) - 1 THEN 0 ELSE @]
  /\ UNCHANGED <<trieVars, acVars, demoVars, fft, build>>

\* Stop is disabled unless playing.
slideHandleStop ==
  /\ ~slide.effectPending
  /\ slide.isPlaying
  /\ slide' = [slide EXCEPT !.isPlaying = FALSE]
  /\ UNCHANGED <<trieVars, acVars, demoVars, fft, build>>

slideHandleReset ==
  /\ ~slide.effectPending
  /\ slide' = [slide EXCEPT !.isPlaying = FALSE, !.currentStep = 0]
  /\ UNCHANGED <<trieVars, acVars, demoVars, fft, build>>

\* Next is disabled at the last step and while playing.
slideHandleStepForward ==
  /\ ~slide.effectPending
  /\ ~(slide.currentStep >= Len(slide.calculations) - 1 \/ slide.isPlaying)
  /\ slide' = IF slide.currentStep < Len(slide.calculations) - 1
              THEN [slide EXCEPT !.currentStep = @ + 1] ELSE slide
  /\ UNCHANGED <<trieVars, acVars, demoVars, fft, build>>

\* Prev is disabled at the first step and while playing.
slideHandleStepBackward ==
  /\ ~slide.effectPending
  /\ ~(slide.currentStep = 0 \/ slide.isPlaying)
  /\ slide' = IF slide.currentStep > 0
              THEN [slide EXCEPT !.currentStep = @ - 1] ELSE slide
  /\ UNCHANGED <<trieVars, acVars, demoVars, fft, build>>

\* The render shows a step when calculations[currentStep] is defined.
SlideShowsStep(s) == s.currentStep < Len(s.calculations)

\* text.length - currentCalculation.position - pattern.length, the length
\* handed to Array(...) for the trailing spacers of the pattern rows.
TrailingSpacers(s) ==
  Len(s.text) - s.calculations[s.currentStep + 1].position - Len(s.pattern)

SlideNext ==
  \/ \E raw \in SlideTextInputs : slideSetText(raw)
  \/ \E raw \in SlidePatternInputs : slideSetPattern(raw)
  \/ slideRecalculate
  \/ slideTimer
  \/ slideHandlePlay
  \/ slideHandleStop
  \/ slideHandleReset
  \/ slideHandleStepForward
  \/ slideHandleStepBackward

\* The values typed into the fields while the play is watched.
SlideFairTextInputs == { SlideDefaultText, <<"A","T">>, <<"x","-">> }

SlideFairPatternInputs == { SlideDefaultPattern, <<"T">> }

SlideFairNext ==
  \/ \E raw \in SlideFairTextInputs : slideSetText(raw)
  \/ \E raw \in SlideFairPatternInputs : slideSetPattern(raw)
  \/ slideRecalculate
  \/ slideTimer
  \/ slideHandlePlay
  \/ slideHandleStop
  \/ slideHandleReset
  \/ slideHandleStepForward
  \/ slideHandleStepBackward

(***************************************************************************)
(* FFT correlation pipeline (FFTDemo).                                     *)
(*                                                                         *)
(* A JavaScript number is a fixed-point integer, the value times Scale; a  *)
(* ComplexNumber is a record of two of them.  Products are rounded down to *)
(* a multiple of 1/Scale, and the cosines and sines are tabulated to the   *)
(* same resolution.                                                        *)
(***************************************************************************)
Scale == 10000

STEPS == <<"input", "signals", "text-fft", "pattern-fft", "multiply", "ifft", "results">>

\* .substring(0, 12) of the text and .substring(0, 6) of the pattern
TextCap == 12
PatternCap == 6

Complex(re, im) == [real |-> re, imag |-> im]

\* The number x as a fixed-point value.
Num(x) == x * Scale

\* a * b for two fixed-point values: a * b / Scale rounded down, computed
\* from the integer and fractional parts so that no product leaves 32 bits.
MulFix(a, b) ==
  (a \div Scale) * b + (a % Scale) * (b \div Scale)
    + ((a % Scale) * (b % Scale)) \div Scale

multiplyComplex(a, b) ==
  Complex(MulFix(a.real, b.real) - MulFix(a.imag, b.imag),
          MulFix(a.real, b.imag) + MulFix(a.imag, b.real))

addComplex(a, b) == Complex(a.real + b.real, a.imag + b.imag)

subtractComplex(a, b) == Complex(a.real - b.real, a.imag - b.imag)

\* Math.round of a fixed-point value: the nearest integer, halves upwards.
MathRound(x) == (2 * x + Scale) \div (2 * Scale)

\* Math.cos(2 pi m / 32) for m = 0..8, times Scale.
CosTable == <<10000, 9808, 9239, 8315, 7071, 5556, 3827, 1951, 0>>

\* Math.cos(2 pi m / 32)
Cos32(m) ==
  LET r == m % 32
  IN  IF r <= 8 THEN CosTable[r + 1]
      ELSE IF r <= 16 THEN -CosTable[16 - r + 1]
      ELSE IF r <= 24 THEN -CosTable[r - 16 + 1]
      ELSE CosTable[32 - r + 1]

\* Math.sin(2 pi m / 32)
Sin32(m) == Cos32(m + 24)

\* wk of the loop of fft: angle = -2 pi k / n, for n a divisor of 32.
Twiddle(k, n) ==
  LET m == k * (32 \div n)
  IN  Complex(Cos32(m), -Sin32(m))

\* fft on a signal of complex values.
RECURSIVE FFT(_)
FFT(signal) ==
  LET n == Len(signal)
  IN  IF n <= 1 THEN signal
      ELSE LET even == [i \in 1..((n + 1) \div 2) |-> signal[2 * i - 1]]
               odd == [i \in 1..(n \div 2) |-> signal[2 * i]]
               evenFFT == FFT(even)
               oddFFT == FFT(odd)
               half == n \div 2
               OddTerm(k) == multiplyComplex(Twiddle(k, n), oddFFT[k + 1])
           IN  [j \in 1..n |->
                  IF j <= half
                  THEN addComplex(evenFFT[j], OddTerm(j - 1))
                  ELSE subtractComplex(evenFFT[j - half], OddTerm(j - 1 - half))]

\* input.map(x => typeof x === 'number' ? { real: x, imag: 0 } : x) of a real signal
AsComplex(signal) == [i \in 1..Len(signal) |-> Complex(Num(signal[i]), 0)]

\* ifft that does not divide by the length.
IFFTNoDivide(complexArray) ==
  LET conjugated == [i \in 1..Len(complexArray) |->
                       Complex(complexArray[i].real, -complexArray[i].imag)]
      fftResult == FFT(conjugated)
  IN  [i \in 1..Len(fftResult) |-> Complex(fftResult[i].real, -fftResult[i].imag)]

\* ifft(complexArray)
IFFT(complexArray) ==
  LET conjugated == [i \in 1..Len(complexArray) |->
                       Complex(complexArray[i].real, -complexArray[i].imag)]
      fftResult == FFT(conjugated)
  IN  [i \in 1..Len(fftResult) |->
         Complex(fftResult[i].real \div Len(complexArray),
                 (-fftResult[i].imag) \div Len(complexArray))]

\* createPaddedSignal(sequence, char, paddedLength)
CreatePaddedSignal(sequence, char, paddedLength) ==
  LET signal == Indicator(sequence, char)
  IN  IF Len(signal) >= paddedLength THEN signal
      ELSE [i \in 1..paddedLength |-> IF i <= Len(signal) THEN signal[i] ELSE 0]

\* The lengths of the signals of all calls of fft made for a signal of length
\* n: the call itself, the call on the even half and the call on the odd half.
RECURSIVE FFTCallLengths(_)
FFTCallLengths(n) ==
  IF n <= 1 THEN {n}
  ELSE {n} \cup FFTCallLengths((n + 1) \div 2) \cup FFTCallLengths(n \div 2)

\* A power of two above n, not the least one when n is a power of two.
RECURSIVE PowerOfTwoAbove(_, _)
PowerOfTwoAbove(p, n) == IF p > n THEN p ELSE PowerOfTwoAbove(2 * p, n)

\* Math.pow(2, Math.ceil(Math.log2(n))) for n >= 1: the least power of two >= n.
RECURSIVE PowerOfTwoFrom(_, _)
PowerOfTwoFrom(p, n) == IF p >= n THEN p ELSE PowerOfTwoFrom(2 * p, n)

NextPowerOfTwo(n) == PowerOfTwoFrom(1, n)

\* processInputs()
ProcessInputs(text, pattern) ==
  LET cleanText == Slice(StripNonATGC(ToUpperCase(text)), 0, TextCap)
      cleanPattern == Slice(StripNonATGC(ToUpperCase(pattern)), 0, PatternCap)
      n == IF Len(cleanText) + Len(cleanPattern) - 1 > 8
           THEN Len(cleanText) + Len(cleanPattern) - 1 ELSE 8
  IN  [cleanText |-> cleanText, cleanPattern |-> cleanPattern,
       paddedLength |-> NextPowerOfTwo(n)]

\* Step 3 with the pattern spectrum not conjugated.
MultiplySpectraNoConjugate(textFFT, patternFFT) ==
  [i \in 1..Len(textFFT) |-> multiplyComplex(textFFT[i], patternFFT[i])]

\* Step 3: textFFT[i] times the conjugate of patternFFT[i]
MultiplySpectra(textFFT, patternFFT) ==
  [i \in 1..Len(textFFT) |->
     multiplyComplex(textFFT[i], Complex(patternFFT[i].real, -patternFFT[i].imag))]

\* array.slice(0, end): a negative end counts from the end of the array.
SliceFromStart(array, end) ==
  LET to == IF end < 0 THEN (IF Len(array) + end < 0 THEN 0 ELSE Len(array) + end)
            ELSE (IF end > Len(array) THEN Len(array) ELSE end)
  IN  SubSeq(array, 1, to)

\* Step 4 for one base.
Correlation(multiplied, validPositions) ==
  LET ifftResult == IFFT(multiplied)
      correlationResults == [i \in 1..Len(ifftResult) |-> MathRound(ifftResult[i].real)]
  IN  SliceFromStart(correlationResults, validPositions)

\* correlations[base][i] || 0
OrZero(array, i) == IF i + 1 <= Len(array) THEN array[i + 1] ELSE 0

\* calculateAllSteps(); the maps keyed by base are sequences in the order of
\* bases.
CalculateAllSteps(text, pattern) ==
  LET in == ProcessInputs(text, pattern)
      bases == 1..Len(CharTypes)
      textSignals == [b \in bases |->
                        CreatePaddedSignal(in.cleanText, CharTypes[b], in.paddedLength)]
      patternSignals == [b \in bases |->
                           CreatePaddedSignal(in.cleanPattern, CharTypes[b], in.paddedLength)]
      textFFT == [b \in bases |-> FFT(AsComplex(textSignals[b]))]
      patternFFT == [b \in bases |-> FFT(AsComplex(patternSignals[b]))]
      multipliedFFT == [b \in bases |-> MultiplySpectra(textFFT[b], patternFFT[b])]
      validPositions == Len(in.cleanText) - Len(in.cleanPattern) + 1
      correlations == [b \in bases |-> Correlation(multipliedFFT[b], validPositions)]
      finalScores == [k \in 1..(IF validPositions > 0 THEN validPositions ELSE 0) |->
                        SumSeq([b \in bases |-> OrZero(correlations[b], k - 1)])]
  IN  [textSignals |-> textSignals, patternSignals |-> patternSignals,
       textFFT |-> textFFT, patternFFT |-> patternFFT,
       multipliedFFT |-> multipliedFFT, correlations |-> correlations,
       finalScores |-> finalScores]

FFTDefaultText == <<"A","T","C","G","A","T","C","G","A","T","C","G">>
FFTDefaultPattern == <<"T","C","G","A">>

\* stepData === null
NoStepData == [finalScores |-> <<-1>>]

\* The values typed into the two fields.
FFTTextInputs ==
  StringsUpTo(GenSigma, MaxFFTText)
    \cup { FFTDefaultText, <<"g","c","x","A","T">>, <<"G","A","T","T","A","C","A">>,
           <<"A","T","C","G","A","T","C","G","A","T","C","G","A">> }

FFTPatternInputs ==
  StringsUpTo(GenSigma, MaxFFTPattern)
    \cup { FFTDefaultPattern, <<"c","x","a">>, <<"T","A","C">>, <<"A","T","C","G","A","T">>,
           <<"G","A","T","C","G","A","T">> }

\* The state after the first render and its effects; progress counts steps,
\* in units of 100 / STEPS.length percent. loops holds the calls of
\* runCompleteDemo that wait on their timer, in the order in which the timers
\* expire, each with the value of its loop variable i.
FFTInit ==
  fft = [text |-> FFTDefaultText, pattern |-> FFTDefaultPattern, currentStep |-> 0,
         isRunning |-> FALSE, stepData |-> NoStepData, progress |-> 0,
         showAllSteps |-> FALSE, loops |-> <<>>]

\* resetDemo()
ResetDemo(f) ==
  [f EXCEPT !.isRunning = FALSE, !.currentStep = 0, !.progress = 0,
            !.stepData = NoStepData, !.showAllSteps = FALSE]

\* handleTextChange, then the effect on [text, pattern]
fftHandleTextChange(raw) ==
  /\ Sanitize(raw) # fft.text
  /\ fft' = ResetDemo([fft EXCEPT !.text = Sanitize(raw)])
  /\ UNCHANGED <<trieVars, acVars, demoVars, slide, build>>

fftHandlePatternChange(raw) ==
  /\ Sanitize(raw) # fft.pattern
  /\ fft' = ResetDemo([fft EXCEPT !.pattern = Sanitize(raw)])
  /\ UNCHANGED <<trieVars, acVars, demoVars, slide, build>>

\* Step Through is disabled while running.
stepThroughDemo ==
  /\ ~fft.isRunning
  /\ fft' = IF fft.stepData = NoStepData
            THEN [fft EXCEPT !.stepData = CalculateAllSteps(fft.text, fft.pattern),
                             !.currentStep = 0, !.progress = 1]
            ELSE IF fft.currentStep < Len(STEPS) - 1
            THEN [fft EXCEPT !.currentStep = @ + 1, !.progress = fft.currentStep + 2]
            ELSE [fft EXCEPT !.showAllSteps = TRUE]
  /\ UNCHANGED <<trieVars, acVars, demoVars, slide, build>>

resetDemo ==
  /\ fft' = ResetDemo(fft)
  /\ UNCHANGED <<trieVars, acVars, demoVars, slide, build>>

\* Run Complete Demo, up to the first await; the button is disabled while
\* running.
runCompleteDemo ==
  /\ ~fft.isRunning
  /\ Len(fft.loops) < MaxRuns
  /\ fft' = [fft EXCEPT !.isRunning = TRUE, !.showAllSteps = FALSE,
                         !.stepData = CalculateAllSteps(fft.text, fft.pattern),
                         !.currentStep = 0, !.progress = 1,
                         !.loops = Append(@, 0)]
  /\ UNCHANGED <<trieVars, acVars, demoVars, slide, build>>

\* The timer of the oldest waiting call of runCompleteDemo expires: the loop
\* goes on with the next i, and either waits again or leaves the loop.
runCompleteDemoResume ==
  /\ fft.loops # <<>>
  /\ LET i == Head(fft.loops) + 1
     IN  fft' = IF i < Len(STEPS) - 1
                THEN [fft EXCEPT !.currentStep = i, !.progress = i + 1,
                                 !.loops = Append(Tail(@), i)]
                ELSE [fft EXCEPT !.currentStep = i, !.progress = i + 1,
                                 !.showAllSteps = TRUE, !.isRunning = FALSE,
                                 !.loops = Tail(@)]
  /\ UNCHANGED <<trieVars, acVars, demoVars, slide, build>>

\* The values typed into the fields while a run is shown.
FFTRunTextInputs == { FFTDefaultText, <<"A","T">>, <<>> }

FFTRunPatternInputs == { FFTDefaultPattern, <<"A">> }

FFTRunNext ==
  \/ \E raw \in FFTRunTextInputs : fftHandleTextChange(raw)
  \/ \E raw \in FFTRunPatternInputs : fftHandlePatternChange(raw)
  \/ stepThroughDemo
  \/ resetDemo
  \/ runCompleteDemo
  \/ runCompleteDemoResume

FFTNext ==
  \/ \E raw \in FFTTextInputs : fftHandleTextChange(raw)
  \/ \E raw \in FFTPatternInputs : fftHandlePatternChange(raw)
  \/ stepThroughDemo
  \/ resetDemo

(***************************************************************************)
(* Specifications: each component on its own, the others left at rest.     *)
(***************************************************************************)
Init == TrieInit /\ ACInit /\ DemoInit /\ SlideInit /\ FFTInit /\ BuildInit

SpecTrie == Init /\ [][TrieNext]_vars

SpecAC == Init /\ [][ACNext]_vars

SpecBuild == Init /\ [][BuildNext]_vars

SpecACDemo == Init /\ [][DemoNext]_vars

SpecSlide == Init /\ [][SlideNext]_vars

\* The sliding-window demo with its scheduling: a timer that was set and not
\* cleared fires, and an effect whose dependencies changed runs after the
\* render.
SpecSlideFair ==
  Init /\ [][SlideFairNext]_vars /\ WF_vars(slideTimer) /\ WF_vars(slideRecalculate)

SpecFFT == Init /\ [][FFTNext]_vars

\* The FFT demo with the Run Complete Demo button and its timers.
SpecFFTRun == Init /\ [][FFTRunNext]_vars

\* The trie and the automaton side by side, fed from one set of inputs.
PairInputs ==
  { <<"A">>, <<"A","T">>, <<"T">>, <<"a","t">>, <<" ","T"," ">>, <<"A","X">>, <<>>, <<" ">> }

InsertNext ==
  \/ \E w \in PairInputs : Insert(w)
  \/ \E w \in PairInputs : AddPattern(w)
  \/ Clear
  \/ ClearAC

SpecInsert == Init /\ [][InsertNext]_vars

(***************************************************************************)
(* Properties of the trie.                                                 *)
(***************************************************************************)
Normalized(s) == Trim(ToUpperCase(s))

\* C4: since construction or the last clear(), search(s).found is true exactly
\* when s, case-normalized, was accepted by some insert; in particular right
\* after insert(s) of a valid s, search(s).found is true.
C4_FoundIffAccepted ==
  /\ \A s \in TrieInputs :
       TrieSearch(trie, s).found <=> (Normalized(s) \in trieAccepted)
  /\ (trieOut.op = "insert" /\ IsATGC(Normalized(trieOut.arg)))
       => TrieSearch(trie, trieOut.arg).found

\* C4 witness: a third sequence was just accepted, written in lower case or
\* not, and some other input is still not found.
C4_Witness ==
  /\ trieOut.op = "insert" /\ trieOut.ret
  /\ Cardinality(trieAccepted) = 3
  /\ <<"A","T">> \in trieAccepted
  /\ TrieSearch(trie, <<"a","t">>).found
  /\ \E s \in TrieInputs : IsATGC(Normalized(s)) /\ ~TrieSearch(trie, s).found

\* How many symbols of w the walk from the root can follow.
WalkLen(nodes, w) ==
  CHOOSE k \in 0..Len(w) :
    /\ \A i \in 1..k : HasChild(nodes, SubSeq(w, 1, i - 1), w[i])
    /\ k < Len(w) => ~HasChild(nodes, SubSeq(w, 1, k), w[k + 1])

\* C6: search(s).isPrefix is true exactly when the walk over all of s ends at a
\* node that is not terminal and has a child; a missing transition gives
\* found = false, isPrefix = false and the path up to the last node reached;
\* found and isPrefix are never both true; with ATCG and ATCGAT inserted but
\* not ATCGA, search(ATCGA) is a prefix and not found.
C6_PrefixOnly ==
  /\ \A s \in TrieInputs :
       LET w == Normalized(s)
           k == WalkLen(trie.nodes, w)
           r == TrieSearch(trie, s)
       IN  /\ r.path = [i \in 1..(k + 1) |-> SubSeq(w, 1, i - 1)]
           /\ k = Len(w) =>
                 r.isPrefix = (~trie.nodes[w].isEndOfWord /\ trie.nodes[w].children # <<>>)
           /\ k < Len(w) => ~r.found /\ ~r.isPrefix
           /\ ~(r.found /\ r.isPrefix)
  /\ ( /\ <<"A","T","C","G">> \in trieAccepted
       /\ <<"A","T","C","G","A","T">> \in trieAccepted
       /\ <<"A","T","C","G","A">> \notin trieAccepted )
     => LET r == TrieSearch(trie, <<"A","T","C","G","A">>)
        IN  ~r.found /\ r.isPrefix

\* C6 witness: search(ATCGA) just returned "prefix only" with ATCG and ATCGAT
\* stored, and a search that hits a missing transition is possible.
C6_Witness ==
  /\ trieOut.op = "search"
  /\ trieOut.arg = <<"A","T","C","G","A">>
  /\ trieOut.ret.isPrefix /\ ~trieOut.ret.found
  /\ trieAccepted = {<<"A","T","C","G">>, <<"A","T","C","G","A","T">>}
  /\ LET r == TrieSearch(trie, <<"A","X">>)
     IN  ~r.found /\ ~r.isPrefix /\ r.path = <<TrieRoot, <<"A">>>>

\* The trie holds ATCG, ATCGA and ATCGAT and nothing else.
ScenarioA ==
  trieAccepted = { <<"A","T","C","G">>, <<"A","T","C","G","A">>,
                   <<"A","T","C","G","A","T">> }

\* The levels of the terminal nodes, one entry per node, in getAllNodes order.
TerminalLevels(t) ==
  LET all == TrieGetAllNodes(t)
  IN  SelectSeq([i \in 1..Len(all) |-> IF t.nodes[all[i]].isEndOfWord
                                        THEN t.nodes[all[i]].level ELSE -1],
                LAMBDA l : l # -1)

\* C14 as claimed: after ATCG, ATCGA and ATCGAT are inserted into an empty
\* trie, search(ATCGAT).found is true, getAllNodes() returns 7 nodes and the
\* terminal nodes are two, at depths 4 and 6.
C14_ScenarioA_AsClaimed ==
  ScenarioA => /\ TrieSearch(trie, <<"A","T","C","G","A","T">>).found
               /\ Len(TrieGetAllNodes(trie)) = 7
               /\ TerminalLevels(trie) = <<4, 6>>

\* C14 amended: after ATCG, ATCGA and ATCGAT are inserted into an empty trie,
\* search(ATCGAT).found is true, getAllNodes() returns 7 nodes (the root and
\* the chain A,T,C,G,A,T) and the terminal nodes are three, at depths 4, 5
\* and 6.
C14_ScenarioA ==
  ScenarioA => /\ TrieSearch(trie, <<"A","T","C","G","A","T">>).found
               /\ TrieGetAllNodes(trie) =
                    [k \in 1..7 |-> SubSeq(<<"A","T","C","G","A","T">>, 1, k - 1)]
               /\ TerminalLevels(trie) = <<4, 5, 6>>

\* C14 witness: the third of the three inserts has returned true.
C14_Witness ==
  /\ ScenarioA
  /\ trieOut.op = "insert" /\ trieOut.ret
  /\ trie.wordCount = 3

\* The sequences a trie holds: the paths of its terminal nodes.
TerminalWords(t) == {n \in DOMAIN t.nodes : t.nodes[n].isEndOfWord}

\* Right after clear(): the trie is the one the constructor makes, and each
\* sequence held before is not found and is accepted again.
ClearedIsNew ==
  (trieOut.op = "clear")
    => /\ trie.nodes = (TrieRoot :> TrieRootNode)
       /\ trie.nodes[TrieRoot].children = <<>> /\ ~trie.nodes[TrieRoot].isEndOfWord
       /\ trie.wordCount = 0
       /\ \A w \in TerminalWords(trieOut.before) :
            ~TrieSearch(trie, w).found /\ TrieInsert(trie, w).ret

\* A step other than clear() keeps every node and every terminal flag.
NoNodeLost ==
  (trieOut'.op # "clear")
    => \A n \in DOMAIN trie.nodes :
         /\ n \in DOMAIN trie'.nodes
         /\ trie.nodes[n].isEndOfWord => trie'.nodes[n].isEndOfWord

\* C15: clear() returns the trie to its initial state, a single non-terminal
\* root without children and pattern count 0, so that every sequence inserted
\* before is not found and is accepted again; between two clears no node is
\* removed and no terminal flag is unset.
C15_ClearResets == []ClearedIsNew /\ [][NoNodeLost]_vars

\* C15 witness: clear() has emptied a trie of three sequences.
C15_Witness ==
  /\ trieOut.op = "clear"
  /\ trieOut.before.wordCount = 3
  /\ trie = NewTrie

\* All but the last symbol of a path.
ParentOf(n) == SubSeq(n, 1, Len(n) - 1)

\* C27: the root has the empty symbol and is never terminal; every other
\* node hangs under exactly one parent entry, so one path leads to it, and
\* the traversal from the root meets every node once; its level is the
\* length of that path; a node has at most 4 children, keyed by A, T, G, C;
\* every leaf but the root is terminal; wordCount is the number of terminal
\* nodes.
C27_TrieShape ==
  LET nodes == trie.nodes
      all == TrieGetAllNodes(trie)
  IN  /\ TrieRoot \in DOMAIN nodes
      /\ nodes[TrieRoot].char = "" /\ ~nodes[TrieRoot].isEndOfWord
      /\ nodes[TrieRoot].level = 0
      /\ \A n \in DOMAIN nodes \ {TrieRoot} :
            /\ ParentOf(n) \in DOMAIN nodes
            /\ Cardinality({i \in 1..Len(nodes[ParentOf(n)].children) :
                              nodes[ParentOf(n)].children[i] = n[Len(n)]}) = 1
            /\ nodes[n].char = n[Len(n)]
            /\ nodes[n].level = Len(n)
            /\ nodes[n].children = <<>> => nodes[n].isEndOfWord
      /\ \A n \in DOMAIN nodes :
            /\ Len(nodes[n].children) <= 4
            /\ \A i \in 1..Len(nodes[n].children) :
                  /\ nodes[n].children[i] \in {"A", "T", "G", "C"}
                  /\ Append(n, nodes[n].children[i]) \in DOMAIN nodes
      /\ Len(all) = Cardinality(DOMAIN nodes)
      /\ {all[i] : i \in 1..Len(all)} = DOMAIN nodes
      /\ trie.wordCount = Cardinality(TerminalWords(trie))

\* ATCG, AT and T are stored, and AT was inserted once more: the root has two
\* children, A is an inner node that is not terminal, AT is terminal and not
\* a leaf.
C27_Witness ==
  /\ trieOut.op = "insert" /\ ~trieOut.ret
  /\ TerminalWords(trie) = { <<"A","T","C","G">>, <<"A","T">>, <<"T">> }
  /\ trie.wordCount = 3
  /\ Len(trie.nodes[TrieRoot].children) = 2
  /\ ~trie.nodes[<<"A">>].isEndOfWord

(***************************************************************************)
(* Properties of the automaton.                                            *)
(***************************************************************************)
Range(seq) == {seq[i] : i \in 1..Len(seq)}

\* A text over the alphabet (possibly empty).
IsText(t) == \A i \in 1..Len(t) : t[i] \in Sigma

\* Brute force: the (pattern, start) pairs where pattern is a substring of text.
Occurrences(patterns, text) ==
  { o \in Range(patterns) \X (0..Len(text)) :
      /\ o[2] + Len(o[1]) <= Len(text)
      /\ SubSeq(text, o[2] + 1, o[2] + Len(o[1])) = o[1] }

\* C1: with the failure links built after the last addPattern, the set of
\* (pattern, start) pairs search(text) returns is the set of occurrences found
\* by comparing every pattern with every substring of the text.
C1_SearchEqualsBruteForce ==
  (acOut.op = "search" /\ acFresh /\ IsText(acOut.arg))
    => {<<m.pattern, m.position>> : m \in Range(acOut.ret)}
         = Occurrences(ac.patterns, acOut.arg)

\* C1 witness: a search over two patterns that overlap in the text.
C1_Witness ==
  /\ acOut.op = "search" /\ acFresh
  /\ Range(ac.patterns) = {<<"A","T">>, <<"T","A">>}
  /\ acOut.arg = <<"A","T","A">>
  /\ Len(acOut.ret) = 2

MatchRecord(o) ==
  [pattern |-> o[1], position |-> o[2], endPosition |-> o[2] + Len(o[1]) - 1]

\* C3: search emits every occurrence of every pattern exactly once, as
\* (pattern, start, start + len - 1), overlapping and nested ones included;
\* GAT and CGAT over CGATCG give CGAT at 0-3 and GAT at 1-3.
C3_EachOccurrenceOnce ==
  (acOut.op = "search" /\ acFresh /\ IsText(acOut.arg))
    => /\ \A o \in Occurrences(ac.patterns, acOut.arg) :
            Cardinality({k \in 1..Len(acOut.ret) : acOut.ret[k] = MatchRecord(o)}) = 1
       /\ \A k \in 1..Len(acOut.ret) :
            \E o \in Occurrences(ac.patterns, acOut.arg) : acOut.ret[k] = MatchRecord(o)
       /\ ( /\ Range(ac.patterns) = {<<"G","A","T">>, <<"C","G","A","T">>}
            /\ acOut.arg = <<"C","G","A","T","C","G">> )
          => /\ Len(acOut.ret) = 2
             /\ Range(acOut.ret) =
                  { [pattern |-> <<"C","G","A","T">>, position |-> 0, endPosition |-> 3],
                    [pattern |-> <<"G","A","T">>, position |-> 1, endPosition |-> 3] }

\* C3 witness: the search of CGATCG for GAT and CGAT has returned.
C3_Witness ==
  /\ acOut.op = "search" /\ acFresh
  /\ ac.patterns = << <<"G","A","T">>, <<"C","G","A","T">> >>
  /\ acOut.arg = <<"C","G","A","T","C","G">>
  /\ Len(acOut.ret) = 2

\* C5: insert and addPattern return false and change nothing when the
\* sequence is empty, has a symbol outside the alphabet or was inserted
\* before; otherwise they return true, mark the final node terminal and raise
\* the pattern count by one; with the same sequences stored, both accept and
\* reject the same inputs.
C5_RejectWithoutMutation ==
  /\ trieOut.op = "insert" =>
       LET w == Normalized(trieOut.arg)
           reject == ~IsATGC(w) \/ w \in trieOut.acceptedBefore
       IN  /\ reject => ~trieOut.ret /\ trie = trieOut.before
           /\ ~reject => /\ trieOut.ret
                         /\ trie.nodes[w].isEndOfWord
                         /\ trie.wordCount = trieOut.before.wordCount + 1
                         /\ TerminalWords(trie) = TerminalWords(trieOut.before) \cup {w}
  /\ acOut.op = "addPattern" =>
       LET w == Normalized(acOut.arg)
           reject == ~IsATGC(w) \/ w \in Range(acOut.before.patterns)
       IN  /\ reject => ~acOut.ret /\ ac = acOut.before
           /\ ~reject => /\ acOut.ret
                         /\ ac.nodes[ToLowerCase(w)].isEndOfWord
                         /\ ac.patterns = Append(acOut.before.patterns, w)
  /\ trieAccepted = Range(ac.patterns) =>
       \A w \in PairInputs : TrieInsert(trie, w).ret = ACAddPattern(ac, w).ret

\* C5 witness: with the same two sequences stored, both structures have just
\* rejected a duplicate written in another case.
C5_Witness ==
  /\ trieOut.op = "insert" /\ ~trieOut.ret /\ trieOut.arg = <<"a","t">>
  /\ acOut.op = "addPattern" /\ ~acOut.ret /\ acOut.arg = <<"a","t">>
  /\ trieAccepted = {<<"A","T">>, <<"T">>}
  /\ Range(ac.patterns) = trieAccepted

\* The matches of a list that end before position k.
EndingBefore(matches, k) ==
  LET Early(m) == m.endPosition < k IN SelectSeq(matches, Early)

\* C9: in a step-mode session with the text and the patterns left alone,
\* after k Step Forward clicks ac.matches is the prefix of search(text) made
\* of the matches ending before position k; after the last character it is
\* the whole list, in the same order.
C9_StepModeEqualsSearch ==
  (demo.stepMode /\ sessionFixed) =>
    LET full == ACSearch(ac, demo.inputText).matches
        k == demo.currentPosition
    IN  /\ ac.matches = EndingBefore(full, k)
        /\ ac.matches = SubSeq(full, 1, Len(ac.matches))
        /\ k = Len(demo.inputText) => ac.matches = full

\* C9 witness: half way through the default text with the first preset, two
\* of the four matches have been found.
C9_Witness ==
  /\ demo.stepMode /\ sessionFixed
  /\ demo.inputText = DefaultText
  /\ demo.currentPosition = 4
  /\ Len(ac.matches) = 2
  /\ Len(ACSearch(ac, demo.inputText).matches) = 4

\* The (pattern, start) pairs search(text) returns on automaton a.
SearchSet(a, text) ==
  {<<m.pattern, m.position>> : m \in Range(ACSearch(a, text).matches)}

\* C11: a successful addPattern leaves every link as it was (the links of the
\* nodes it creates are null and empty): it neither rebuilds nor reports; and
\* from any state, stale or not, buildFailureLinks followed by search(text)
\* returns the brute-force occurrences of the current patterns.
C11_StaleUntilRebuilt ==
  /\ (acOut.op = "addPattern" /\ acOut.ret)
       => \A n \in DOMAIN ac.nodes :
            IF n \in DOMAIN acOut.before.nodes
            THEN /\ ac.nodes[n].failureLink = acOut.before.nodes[n].failureLink
                 /\ ac.nodes[n].outputLinks = acOut.before.nodes[n].outputLinks
            ELSE /\ ac.nodes[n].failureLink = Null
                 /\ ac.nodes[n].outputLinks = <<>>
  /\ LET rebuilt == ACBuildFailureLinks(ac)
     IN  \A t \in Texts :
           IsText(t) => SearchSet(rebuilt, t) = Occurrences(ac.patterns, t)

\* C11 witness: A was added and linked, TA was added with no rebuild, and the
\* search of TA has returned TA alone, missing the A at 1.
C11_Witness ==
  /\ acOut.op = "search" /\ ~acFresh
  /\ ac.patterns = << <<"A">>, <<"T","A">> >>
  /\ ac.nodes[<<"a">>].failureLink = Root
  /\ ac.nodes[<<"t">>].failureLink = Null
  /\ acOut.arg = <<"T","A">>
  /\ {<<m.pattern, m.position>> : m \in Range(acOut.ret)} = {<< <<"T","A">>, 0 >>}
  /\ Occurrences(ac.patterns, acOut.arg) = {<< <<"T","A">>, 0 >>, << <<"A">>, 1 >>}

\* A newly constructed automaton given the patterns in order, then linked.
FreshAC(patterns) == ACBuildFailureLinks(AddAll(NewAC, patterns, 1))

\* The texts searched from every state of the demo.
CursorTexts ==
  StringsUpTo(GenSigma, 2) \cup {<<"A","T","A">>, <<"A","T","C","G","A">>, DefaultText}

\* C12: whatever cursor and match list earlier searches or a partly run step
\* session left, search(text) returns the list a newly built automaton with
\* the same patterns returns, and a second search(text) returns it again; a
\* step session that has not stepped yet has its cursor at the root and an
\* empty match list.
C12_SearchIgnoresCursor ==
  /\ LET fresh == FreshAC(ac.patterns)
     IN  \A t \in CursorTexts :
           LET once == ACSearch(ac, t)
           IN  /\ once.matches = ACSearch(fresh, t).matches
               /\ ACSearch(once, t).matches = once.matches
  /\ (demo.stepMode /\ demo.currentPosition = 0)
       => (ac.currentState = Root /\ ac.matches = <<>>)

\* C12 witness: a step session stopped in the middle of the text, one match
\* emitted and the cursor below the root, while search of the whole text
\* returns more.
C12_Witness ==
  /\ demo.stepMode
  /\ demo.currentPosition > 0 /\ demo.currentPosition < Len(demo.inputText)
  /\ ac.currentState # Root
  /\ Len(ac.matches) = 1
  /\ Len(ACSearch(ac, demo.inputText).matches) > 1

\* C13: with TCG and ATCG added and the links built, search("ATCGA") returns
\* two matches and no more: ATCG at 0-3 and TCG at 1-3.
C13_NestedExample ==
  ( /\ acOut.op = "search" /\ acFresh
    /\ Range(ac.patterns) = {<<"T","C","G">>, <<"A","T","C","G">>}
    /\ acOut.arg = <<"A","T","C","G","A">> )
    => /\ Len(acOut.ret) = 2
       /\ Range(acOut.ret) =
            { [pattern |-> <<"A","T","C","G">>, position |-> 0, endPosition |-> 3],
              [pattern |-> <<"T","C","G">>, position |-> 1, endPosition |-> 3] }

\* C13 witness: that search has returned, TCG having been added first.
C13_Witness ==
  /\ acOut.op = "search" /\ acFresh
  /\ ac.patterns = << <<"T","C","G">>, <<"A","T","C","G">> >>
  /\ acOut.arg = <<"A","T","C","G","A">>
  /\ Len(acOut.ret) > 0

\* The suffix of path p that starts at index k (the empty path past the end).
SuffixFrom(p, k) == SubSeq(p, k, Len(p))

\* The node of the longest proper suffix of p that is a node of the automaton,
\* that is, a prefix of some inserted pattern; the root when only the empty
\* suffix is.
LongestSuffixNode(nodes, p) ==
  LET k == CHOOSE j \in 2..(Len(p) + 1) :
             /\ SuffixFrom(p, j) \in DOMAIN nodes
             /\ \A i \in 2..(j - 1) : SuffixFrom(p, i) \notin DOMAIN nodes
  IN  SuffixFrom(p, k)

\* C16: after buildFailureLinks, the failure link of every node but the root
\* is the node of the longest proper suffix of its path that is a prefix of
\* an inserted pattern, the root when there is no such non-empty suffix.
C16_FailureLinkIsLongestSuffix ==
  acFresh => \A n \in DOMAIN ac.nodes \ {Root} :
               ac.nodes[n].failureLink = LongestSuffixNode(ac.nodes, n)

\* C16 witness: GAT and CGAT are linked, and the link of cgat is gat.
C16_Witness ==
  /\ acFresh /\ acOut.op = "buildFailureLinks"
  /\ Range(ac.patterns) = {<<"G","A","T">>, <<"C","G","A","T">>}
  /\ ac.nodes[<<"c","g","a","t">>].failureLink = <<"g","a","t">>
  /\ ac.nodes[<<"g","a","t">>].failureLink = Root

\* The terminal nodes among the proper suffixes of path p, longest first:
\* the terminal nodes on the failure chain of p, nearest first.
TerminalSuffixes(nodes, p) ==
  SelectSeq([k \in 1..Len(p) |-> SuffixFrom(p, k + 1)],
            LAMBDA q : q \in DOMAIN nodes /\ nodes[q].isEndOfWord)

\* The patterns that end at the state of path p: those that are a suffix of p.
PatternsEndingAt(patterns, p) ==
  {q \in Range(patterns) : Len(q) <= Len(p) /\ ToLowerCase(q) = SuffixFrom(p, Len(p) - Len(q) + 1)}

\* C17 as claimed: after buildFailureLinks, the outputLinks of every node are
\* the terminal nodes of its failure chain, nearest first, with the node
\* itself as first entry when it is terminal.
C17_OutputLinksInclSelf_AsClaimed ==
  acFresh => \A n \in DOMAIN ac.nodes :
               ac.nodes[n].outputLinks =
                 (IF ac.nodes[n].isEndOfWord THEN <<n>> ELSE <<>>)
                   \o TerminalSuffixes(ac.nodes, n)

\* C17 amended: after buildFailureLinks, the outputLinks of every node are
\* the terminal nodes of its failure chain, nearest first, and never hold the
\* node itself; the node's own pattern, when it is terminal, together with
\* the patterns of the list are the patterns ending at that state.
C17_OutputLinksExclSelf ==
  acFresh => \A n \in DOMAIN ac.nodes :
               /\ ac.nodes[n].outputLinks = TerminalSuffixes(ac.nodes, n)
               /\ ~Includes(ac.nodes[n].outputLinks, n)
               /\ (IF ac.nodes[n].isEndOfWord THEN {ac.nodes[n].pattern} ELSE {})
                    \cup {ac.nodes[q].pattern : q \in Range(ac.nodes[n].outputLinks)}
                   = PatternsEndingAt(ac.patterns, n)

\* C17 witness: GAT and CGAT are linked; cgat is terminal and its list is gat.
C17_Witness ==
  /\ acFresh /\ acOut.op = "buildFailureLinks"
  /\ Range(ac.patterns) = {<<"G","A","T">>, <<"C","G","A","T">>}
  /\ ac.nodes[<<"c","g","a","t">>].isEndOfWord
  /\ ac.nodes[<<"c","g","a","t">>].outputLinks = << <<"g","a","t">> >>

\* The number of failure links from node n to the root, -1 when the chain
\* meets null first or does not end within fuel links.
RECURSIVE LinksToRoot(_, _, _)
LinksToRoot(nodes, n, fuel) ==
  IF n = Root THEN 0
  ELSE IF n = Null \/ fuel = 0 THEN -1
  ELSE LET rest == LinksToRoot(nodes, nodes[n].failureLink, fuel - 1)
       IN  IF rest = -1 THEN -1 ELSE rest + 1

\* C18: after buildFailureLinks every node but the root has a failure link
\* that is a node of smaller depth, the root for a node of depth 1, and the
\* link of the root is null; so the links lead from every node to the root in
\* at most depth steps, without a cycle.
C18_FailureLinksDecreaseDepth ==
  acFresh =>
    /\ ac.nodes[Root].failureLink = Null
    /\ \A n \in DOMAIN ac.nodes \ {Root} :
         LET link == ac.nodes[n].failureLink
         IN  /\ link # Null /\ link \in DOMAIN ac.nodes
             /\ ac.nodes[link].depth < ac.nodes[n].depth
             /\ (ac.nodes[n].depth = 1) => (link = Root)
             /\ LinksToRoot(ac.nodes, n, ac.nodes[n].depth) \in 1..ac.nodes[n].depth

\* C18 witness: TCG and ATCG are linked; atcg, of depth 4, links to tcg, of
\* depth 3, two links away from the root.
C18_Witness ==
  /\ acFresh /\ acOut.op = "buildFailureLinks"
  /\ Range(ac.patterns) = {<<"T","C","G">>, <<"A","T","C","G">>}
  /\ ac.nodes[<<"a","t","c","g">>].failureLink = <<"t","c","g">>
  /\ LinksToRoot(ac.nodes, <<"a","t","c","g">>, 4) = 2

\* The statement-by-statement build ends with the links the whole call gives.
BuildStepsAgree ==
  (build.pc = "idle" /\ acOut.op = "buildFailureLinks")
    => ac.nodes = ACBuildFailureLinks(ac).nodes

\* The nodes whose failureLink the running build has not assigned yet.
Unlinked == (DOMAIN ac.nodes \ {Root}) \ build.linked

\* C19 as claimed: in buildFailureLinks no node's outputLinks is assigned
\* while the failureLink of some node is still unset in this build.
C19_AllLinksBeforeOutputs_AsClaimed ==
  (build.event = "output") => (Unlinked = {})

\* C19 amended: in buildFailureLinks, when a node's outputLinks is assigned,
\* this build has already set the node's own failureLink and the failureLink
\* of every node of smaller depth.
C19_LinkBeforeOwnOutputs ==
  (build.event = "output")
    => /\ build.child \notin Unlinked
       /\ \A n \in Unlinked : ac.nodes[n].depth >= ac.nodes[build.child].depth

\* C19 witness: with AT and TA added, the outputLinks of at have just been
\* assigned while ta has no failure link yet.
C19_Witness ==
  /\ build.event = "output"
  /\ ac.patterns = << <<"A","T">>, <<"T","A">> >>
  /\ build.child = <<"a","t">>
  /\ Unlinked = { <<"t","a">> }

\* The node of the longest suffix of the string read, itself included, that
\* is a node of the automaton; the root when only the empty suffix is.
LongestSuffixRead(nodes, read) ==
  LET k == CHOOSE j \in 1..(Len(read) + 1) :
             /\ SuffixFrom(read, j) \in DOMAIN nodes
             /\ \A i \in 1..(j - 1) : SuffixFrom(read, i) \notin DOMAIN nodes
  IN  SuffixFrom(read, k)

\* C20: in a step session on a built automaton, with patterns and text as
\* they were when it started, after the first k characters were processed
\* from the root the current state is a node, not null: the one of the longest
\* suffix of those k characters that is a prefix of a pattern (the root if
\* none); its depth is at most k and every match emitted starts at 0 or later.
C20_CursorIsLongestSuffix ==
  (demo.stepMode /\ sessionFixed)
    => LET read == ToLowerCase(SubSeq(demo.inputText, 1, demo.currentPosition))
       IN  /\ ac.currentState # Null
           /\ ac.currentState \in DOMAIN ac.nodes
           /\ ac.currentState = LongestSuffixRead(ac.nodes, read)
           /\ ac.nodes[ac.currentState].depth <= demo.currentPosition
           /\ \A k \in 1..Len(ac.matches) : ac.matches[k].position >= 0

\* C20 witness: with TCG and ATCG, five characters of ATCGATCG were processed;
\* the last step left atcg over two failure links and entered a.
C20_Witness ==
  /\ demo.stepMode /\ sessionFixed
  /\ ac.patterns = << <<"T","C","G">>, <<"A","T","C","G">> >>
  /\ demo.inputText = DefaultText
  /\ demo.currentPosition = 5
  /\ ac.animationState.previousState = <<"a","t","c","g">>
  /\ ac.animationState.usedFailureLink
  /\ ac.currentState = <<"a">>

\* The last processCharacter call of a search: the state at entry, the symbol
\* and where the loop ended.
LastEntry == ac.animationState.previousState
LastChar == ac.animationState.currentChar
LastLoop == FollowFailure(ac.nodes, LastEntry, LastChar, FALSE)
LastFollows == FailureFollows(ac.nodes, LastEntry, LastChar)

\* No state on the failure chain of the entry state has a child for the symbol.
NoTransitionOnChain ==
  \A k \in 1..(Len(LastEntry) + 1) :
     SuffixFrom(LastEntry, k) \in DOMAIN ac.nodes
       => ~HasChild(ac.nodes, SuffixFrom(LastEntry, k), LastChar)

\* C21 as claimed: in a processCharacter call the failure links followed are
\* at most as many as the depth of the state at entry, and the null link of
\* the root is never read and assigned to the cursor.
C21_RootLinkNeverRead_AsClaimed ==
  (acOut.op = "search" /\ acOut.arg # <<>>)
    => /\ LastFollows <= ac.nodes[LastEntry].depth
       /\ LastLoop.state # Null

\* C21 amended: in a processCharacter call a failure link is followed while
\* the cursor is not null and has no child for the symbol; the loop ends
\* after at most depth + 1 follows; on built links, when no state of the chain
\* has the child, the last follow reads the root's null link into the cursor,
\* after depth-of-chain + 1 follows; the call then puts the cursor back on the
\* root, so it ends on a node, never on null.
C21_RootLinkReadThenReset ==
  (acOut.op = "search" /\ acOut.arg # <<>>)
    => /\ LastFollows <= ac.nodes[LastEntry].depth + 1
       /\ ac.animationState.usedFailureLink = (LastFollows > 0)
       /\ (LastLoop.state = Null) => (LastFollows >= 1 /\ ac.currentState = Root)
       /\ ac.currentState # Null /\ ac.currentState \in DOMAIN ac.nodes
       /\ (acFresh /\ NoTransitionOnChain)
            => /\ LastLoop.state = Null
               /\ LastFollows = LinksToRoot(ac.nodes, LastEntry, Len(LastEntry)) + 1

\* C21 witness: with A alone, the search of TT ended with a call that entered
\* at the root and followed one link, the root's.
C21_Witness ==
  /\ acOut.op = "search" /\ acFresh
  /\ ac.patterns = << <<"A">> >>
  /\ acOut.arg = <<"T","T">>
  /\ LastEntry = Root
  /\ LastFollows = 1
  /\ LastLoop.state = Null
  /\ ac.currentState = Root

\* The links are those buildFailureLinks gives for the nodes present: no
\* pattern was added since the last build.
LinksBuilt(a) == a.nodes = ACBuildFailureLinks(a).nodes

\* C22: in the demo, after every sequence of Add Pattern, Quick Add, Search,
\* Step Through / Step Forward, Reset and Clear All, the links of the
\* automaton are built for its current patterns; so every search and every
\* processCharacter starts from links built after the last successful
\* addPattern.
C22_NeverSearchedStale == acFresh /\ LinksBuilt(ac)

\* C22 witness: TA was added after A, and the search of ATA has reported the
\* A inside TA through the output link of ta.
C22_Witness ==
  /\ ac.patterns = << <<"A">>, <<"T","A">> >>
  /\ demo.inputText = <<"A","T","A">>
  /\ ~demo.stepMode
  /\ Len(demo.matches) = 3
  /\ ac.nodes[<<"t","a">>].outputLinks = << <<"a">> >>

\* C23: in the demo, under every interleaving of the handlers, when a step
\* session has stepped through the last character of the text, ac.matches is
\* what search(inputText) returns for the text and patterns of that moment,
\* also when a pattern was added or the text was edited during the session.
C23_SessionEndEqualsSearch ==
  (demo.stepMode /\ Len(demo.inputText) > 0
     /\ demo.currentPosition = Len(demo.inputText))
    => ac.matches = ACSearch(ac, demo.inputText).matches

\* C24: whatever the order of addPattern and buildFailureLinks calls, after
\* the last build every node has the failureLink and the outputLinks it has
\* in an automaton given the same patterns first and built once; a second
\* buildFailureLinks changes nothing.
C24_BuildIsFullRebuild ==
  acFresh =>
    LET once == FreshAC(ac.patterns)
    IN  /\ DOMAIN ac.nodes = DOMAIN once.nodes
        /\ \A n \in DOMAIN ac.nodes :
             /\ ac.nodes[n].failureLink = once.nodes[n].failureLink
             /\ ac.nodes[n].outputLinks = once.nodes[n].outputLinks
        /\ ACBuildFailureLinks(ac) = ac

\* C24 witness: TA was linked (ta to the root) before A was added; the build
\* that has just returned moved the link of ta to a.
C24_Witness ==
  /\ acFresh /\ acOut.op = "buildFailureLinks"
  /\ ac.patterns = << <<"T","A">>, <<"A">> >>
  /\ acOut.before.nodes[<<"t","a">>].failureLink = Root
  /\ acOut.before.nodes[<<"a">>].failureLink = Null
  /\ ac.nodes[<<"t","a">>].failureLink = <<"a">>
  /\ ac.nodes[<<"t","a">>].outputLinks = << <<"a">> >>

(***************************************************************************)
(* Properties of the two matchers.                                         *)
(***************************************************************************)
\* How many indices j have text[i + j] = pattern[j], for alignment i.
Agreements(text, pattern, i) ==
  Cardinality({j \in 1..Len(pattern) : text[i + j] = pattern[j]})

\* The window text[i .. i + len(pattern)) is the pattern.
WindowIsPattern(text, pattern, i) ==
  SubSeq(text, i + 1, i + Len(pattern)) = pattern

\* C7: calculateSteps returns one step per alignment 0..len(text)-len(pattern)
\* of the cleaned strings, in increasing order, with totalScore the number of
\* agreeing indices and isMatch true exactly when the window is the pattern;
\* the result is empty when either cleaned string is empty or the pattern is
\* the longer one.
C7_SlidingWindowScores ==
  ~slide.effectPending =>
    LET t == StripNonATGC(ToUpperCase(slide.text))
        p == StripNonATGC(ToUpperCase(slide.pattern))
        calc == slide.calculations
    IN  IF t = <<>> \/ p = <<>> \/ Len(p) > Len(t) THEN calc = <<>>
        ELSE /\ Len(calc) = Len(t) - Len(p) + 1
             /\ \A k \in 1..Len(calc) :
                  /\ calc[k].position = k - 1
                  /\ calc[k].totalScore = Agreements(t, p, k - 1)
                  /\ calc[k].isMatch = WindowIsPattern(t, p, k - 1)

\* C7 witness: a text typed in mixed case with a foreign character has been
\* scored against T: four alignments, a match at position 1 only.
C7_Witness ==
  /\ ~slide.effectPending
  /\ slide.text = <<"a","t","-","G","c">>
  /\ slide.pattern = <<"T">>
  /\ Len(slide.calculations) = 4
  /\ slide.calculations[2].isMatch
  /\ ~slide.calculations[1].isMatch

\* The text and the pattern as the FFT pipeline sees them.
FFTClean == ProcessInputs(fft.text, fft.pattern)

\* C2: for a text of at most 12 and a non-empty pattern of at most 6 symbols,
\* not longer than the text, finalScores[i] of the FFT pipeline is the
\* totalScore of the sliding-window matcher at every alignment
\* i in 0..len(text)-len(pattern).
C2_FFTEqualsSlidingWindow ==
  ( /\ fft.stepData # NoStepData
    /\ Len(StripNonATGC(ToUpperCase(fft.text))) <= TextCap
    /\ Len(StripNonATGC(ToUpperCase(fft.pattern))) <= PatternCap
    /\ FFTClean.cleanPattern # <<>>
    /\ Len(FFTClean.cleanPattern) <= Len(FFTClean.cleanText) )
    => LET steps == CalculateSteps(fft.text, fft.pattern)
       IN  \A i \in 0..(Len(FFTClean.cleanText) - Len(FFTClean.cleanPattern)) :
             /\ i + 1 \in DOMAIN fft.stepData.finalScores
             /\ i + 1 \in DOMAIN steps
             /\ fft.stepData.finalScores[i + 1] = steps[i + 1].totalScore

\* C2 witness: the pipeline has run on the default text against a pattern of
\* six symbols, which needs a transform of length 32.
C2_Witness ==
  /\ fft.stepData # NoStepData
  /\ fft.text = FFTDefaultText
  /\ fft.pattern = <<"A","T","C","G","A","T">>
  /\ Len(fft.stepData.textFFT[1]) = 32
  /\ Len(fft.stepData.finalScores) = 7

\* C8: the positions with finalScores[i] = len(pattern) are exactly the
\* positions where the window of the text is the pattern; elsewhere
\* len(pattern) - finalScores[i] is the number of mismatching symbols; for
\* ATCGATCGATCG and TCGA the perfect matches are at 1 and 5.
C8_PerfectScoreIffMatch ==
  fft.stepData # NoStepData =>
    LET t == FFTClean.cleanText
        p == FFTClean.cleanPattern
        scores == fft.stepData.finalScores
        perfect == {i \in 0..(Len(scores) - 1) : scores[i + 1] = Len(p)}
    IN  /\ perfect = {i \in 0..(Len(t) - Len(p)) : WindowIsPattern(t, p, i)}
        /\ \A i \in 0..(Len(scores) - 1) :
             Len(p) - scores[i + 1] =
               Cardinality({j \in 1..Len(p) : t[i + j] # p[j]})
        /\ (t = FFTDefaultText /\ p = FFTDefaultPattern) => perfect = {1, 5}

\* C8 witness: the pipeline has run on the default text and pattern.
C8_Witness ==
  /\ fft.stepData # NoStepData
  /\ fft.text = FFTDefaultText
  /\ fft.pattern = FFTDefaultPattern
  /\ fft.stepData.finalScores[2] = 4
  /\ fft.stepData.finalScores[1] < 4

\* C10 as claimed: finalScores is empty whenever the cleaned text is empty,
\* the cleaned pattern is empty or the pattern is longer than the text.
C10_EmptyOnDegenerateInput ==
  ( /\ fft.stepData # NoStepData
    /\ \/ FFTClean.cleanText = <<>>
       \/ FFTClean.cleanPattern = <<>>
       \/ Len(FFTClean.cleanPattern) > Len(FFTClean.cleanText) )
    => fft.stepData.finalScores = <<>>

\* len(text) - len(pattern) + 1 for the cleaned inputs of the FFT demo.
FFTValidPositions == Len(FFTClean.cleanText) - Len(FFTClean.cleanPattern) + 1

\* C25: for every class c, correlations[c] keeps the first
\* len(text) - len(pattern) + 1 entries of the inverse transform: it has as
\* many entries as finalScores, none when that number is 0 or less, and
\* finalScores[i] is the sum of correlations[c][i] over the four classes.
C25_CorrelationsKeepValidPositions ==
  (fft.stepData # NoStepData)
    => /\ \A b \in 1..Len(CharTypes) :
            /\ Len(fft.stepData.correlations[b]) = Len(fft.stepData.finalScores)
            /\ Len(fft.stepData.correlations[b])
                 = (IF FFTValidPositions > 0 THEN FFTValidPositions ELSE 0)
       /\ \A i \in 1..Len(fft.stepData.finalScores) :
            fft.stepData.finalScores[i]
              = SumSeq([b \in 1..Len(CharTypes) |-> fft.stepData.correlations[b][i]])

IsPowerOfTwo(n) == \E e \in 0..6 : n = 2 ^ e

FFTAtRest ==
  /\ fft.currentStep = 0 /\ fft.progress = 0 /\ fft.stepData = NoStepData
  /\ ~fft.showAllSteps /\ ~fft.isRunning

\* C28: once reset (by the button or by an edit) the demo stays in its
\* initial state until a button is pressed, so no timer of an earlier Run
\* Complete Demo changes it; and at most one loop of runCompleteDemo is
\* under way at any time.
C28_ResetEndsTheRun ==
  /\ [][(FFTAtRest /\ runCompleteDemoResume) => FFTAtRest']_vars
  /\ [](Len(fft.loops) <= 1)

\* C29: whenever the sliding-window demo shows a step, the number of
\* trailing spacer cells text.length - position - pattern.length is not
\* negative.
C29_TrailingSpacersNotNegative ==
  SlideShowsStep(slide) => TrailingSpacers(slide) >= 0

\* currentStep is an index of calculations.
StepInRange ==
  Len(slide.calculations) > 0 => slide.currentStep \in 0..(Len(slide.calculations) - 1)

\* Playing ends either by the user (Stop, Reset, an edit and its effect) or by
\* the timer at the last step, which leaves currentStep there.
PlayEndsAtLastStep ==
  (slide.isPlaying /\ ~slide'.isPlaying)
    => \/ slideHandleStop \/ slideHandleReset \/ slideRecalculate
       \/ /\ slideTimer
          /\ slide.currentStep = Len(slide.calculations) - 1
          /\ slide'.currentStep = slide.currentStep

\* Playing starts by Play only.
PlayStartsByPlay == (~slide.isPlaying /\ slide'.isPlaying) => slideHandlePlay

\* C30: currentStep stays within 0..calculations.length-1 while calculations
\* is not empty, whatever the user and the timer do; once playing, the demo
\* stops playing; without a user action that happens at the last step only,
\* with currentStep left there, and isPlaying stays false until Play is pressed.
C30_PlayRunsToTheEnd ==
  /\ []StepInRange
  /\ (slide.isPlaying ~> ~slide.isPlaying)
  /\ [][PlayEndsAtLastStep]_vars
  /\ [][PlayStartsByPlay]_vars

\* A play of the default inputs has been carried by the timer to the last of
\* the six steps and is about to be stopped by it.
C30_Witness ==
  /\ ~slide.effectPending /\ slide.isPlaying
  /\ slide.text = SlideDefaultText /\ slide.pattern = SlideDefaultPattern
  /\ Len(slide.calculations) = 6
  /\ slide.currentStep = 5
  /\ ENABLED slideTimer

====
